---- MODULE Spec2Model ----
(***************************************************************************)
(* Model of the garbage collected handles and the concrete factory of      *)
(* Code/eCore/Include/Memory/GarbageCollection.h:                           *)
(*   GCCounter, GCUniquePtr, GCThisPtr, GCWeakPtr, GCConcreteFactory and    *)
(*   GCGenericFactory.                                                     *)
(*                                                                         *)
(* Threads call Create, copy and Reset the GCWeakPtr handles they own and   *)
(* call CleanUp.  Every access to shared memory (the fields of a GCCounter, *)
(* the two mutexes) is a step of its own, so that the interleavings of the  *)
(* decrement and the zero test of GCWeakPtr::Reset, and of the test and the *)
(* write of GCUniquePtr::Reset, are all explored.  Reading a GCCounter that *)
(* has been deleted yields any value of the field's type.                   *)
(***************************************************************************)
EXTENDS Integers, Sequences, FiniteSets, TLC

\* ------------------------------------------------------------------ bounds
MaxHandles == 2
MaxRec == 2
CountCap == 2

\* --------------------------------------------------------------- constants
NULL == 0
THIS == 1
CLIENT == 2

\* two threads share the factory: the races of this code are between a pair
Threads == {1, 2}
Rec == 1..MaxRec
\* addresses of objects: as many as objects, so that E_NEW can always return
\* an address never used before
Addr == 1..MaxRec
\* the GCUniquePtr and the GCWeakPtr variables of client code: two of each, the
\* operands of a copy, an assignment or a comparison
Own == {1, 2}
Shared == {1, 2}
\* the value of a variable whose constructor has not run yet
Unborn == MaxRec + 1

VARIABLES
  debug,            \* "debug" (E_DEBUG: E_ASSERT, E_ASSERT_PTR, E_ASSERT_MSG are
                    \* fatal), "release", or "unknown" while no such assertion
                    \* has been evaluated
  heap,             \* GCCounter r: "unused", "live" (E_NEW) or "freed" (E_DELETE)
  counter,          \* GCCounter r: [count, ptr, pCollector]
  objAt,            \* allocator: the object living at an address, or NULL
  mLiveList,        \* GCConcreteFactory::mLiveList, the mpCounter of each Ptr
  mCleaningUp,      \* GCConcreteFactory::mCleaningUp
  mAllocatorMutex,  \* owner thread or NULL
  mLiveListMutex,   \* owner thread or NULL
  weak,             \* weak[t][r]: number of GCWeakPtr of thread t with mpCounter = r
  pc,               \* position of each thread
  local,            \* locals of the call each thread is executing
  failed,           \* "none" or the assertion that aborted the process
  uaf,              \* a deleted GCCounter has been read or written
  badDestroy,       \* Destroy was handed an address holding no object
  destroys,         \* per object: number of Destroy calls that deleted it
  collects,         \* per object: number of Collect calls made for it
  frees,            \* per GCCounter: number of E_DELETE(mpCounter)
  cleaned,          \* entries whose Ptr was destroyed by the Clear of CleanUp
  uptr,             \* uptr[i]: mpCounter of GCUniquePtr variable i of client code
  wptr,             \* wptr[k]: mpCounter of GCWeakPtr variable k of client code
  last,             \* the last call client code made on such a variable
  tptr,             \* mpCounter of the GCThisPtr variable of client code, NULL
                    \* once its destructor has run
  tmp,              \* mpCounter of the temporary GCWeakPtr of an assignment
  member,           \* member[x]: mpCounter of the GCWeakPtr that object x holds as
                    \* a data member, NULL for none
  early,            \* GCCounters for whose object a Collect returned at line 756
  dev               \* DX11Device: the statement its caller is at, and the
                    \* locals of the call in progress

vars == <<debug, heap, counter, objAt, mLiveList, mCleaningUp, mAllocatorMutex,
          mLiveListMutex, weak, pc, local, failed, uaf, badDestroy, destroys,
          collects, frees, cleaned, uptr, wptr, last, tptr, tmp, member, early,
          dev>>

\* the variables of client code that holds handles in variables of its own
cvars == <<uptr, wptr, last, tptr, tmp>>

\* what the calls of the threads on a factory of objects without handles leave
\* alone
hvars == <<cvars, member, early, dev>>

\* the factory and the threads that use it
fvars == <<mLiveList, mCleaningUp, mAllocatorMutex, mLiveListMutex, weak, pc,
           local, cleaned, member, early, dev>>

\* ------------------------------------------------------------------ helpers
GCCounter == [count |-> 0, ptr |-> NULL, pCollector |-> NULL]

NoLocal == [r |-> NULL, p |-> NULL, e |-> NULL, z |-> FALSE,
            ctx |-> "none"]

\* DX11Device between two calls: at is the statement reached, before the live
\* count read when the call began, blendState and ret the mpCounter of the
\* local handle and of the handle returned, initialized the result of Initialize
NoCall == [at |-> "ready", before |-> 0, blendState |-> NULL, ret |-> NULL,
           initialized |-> "none"]

\* the builds the run so far is consistent with
Builds == IF debug = "unknown" THEN {"debug", "release"} ELSE {debug}

Bump(n) == IF n < CountCap THEN n + 1 ELSE n

\* values a read of a field of GCCounter r can yield
ReadPtr(r) == IF heap[r] = "live" THEN {counter[r].ptr} ELSE Addr \cup {NULL}
ReadCountIsZero_BeforeDecrement(r) ==
  IF heap[r] = "live" THEN {counter[r].count = 1} ELSE BOOLEAN
ReadCountIsZero(r) == IF heap[r] = "live" THEN {counter[r].count = 0} ELSE BOOLEAN
ReadCollector(r) == IF heap[r] = "live" THEN {counter[r].pCollector} ELSE {NULL, THIS}

\* ids not yet used for an object / GCCounter
FreshIds == {r \in Rec : /\ heap[r] = "unused"
                         /\ \A t \in Threads : ~(pc[t] = "create_reg" /\ local[t].r = r)}
NextId == CHOOSE r \in FreshIds : \A s \in FreshIds : r <= s

\* addresses E_NEW can return: a free address that a GCCounter or a local of a
\* running call still holds, or a free address held nowhere; the latter differ
\* in name only, and the lowest stands for them all
Held(a) == \/ \E r \in Rec : heap[r] = "live" /\ counter[r].ptr = a
           \/ \E t \in Threads : local[t].p = a
FreeAddr == {a \in Addr : objAt[a] = NULL}
NewAddr == {a \in FreeAddr : Held(a) \/ \A b \in FreeAddr : ~Held(b) => a <= b}

\* Containers::List
PushBack(list, e) == Append(list, e)
RemoveFast(list, i) ==
  LET n == Len(list)
      moved == [list EXCEPT ![i] = list[n]]
  IN  SubSeq(moved, 1, n - 1)

\* ++(mpCounter->count) and --(mpCounter->count)
CountAfterAttach_Forgotten(c) == c
CountAfterAttach(c) == c + 1
CountAfterDetach_Forgotten(c) == c
CountAfterDetach(c) == c - 1

\* GCWeakPtr::GetCount and GCWeakPtr::GetPtr of a handle with mpCounter = m
GetCount_Unchecked(m) == counter[IF m = NULL THEN 1 ELSE m].count
GetCount(m) == IF m = NULL THEN 0 ELSE counter[m].count
GetPtr(m) == IF m = NULL THEN NULL ELSE counter[m].ptr

\* GCUniquePtr::Reset, line 420: mpCounter->ptr = nullptr
ClearPtr_Forgotten(e) == counter
ClearPtr(e) == IF heap[e] = "live" THEN [counter EXCEPT ![e].ptr = NULL] ELSE counter

\* GCUniquePtr::Swap and GCWeakPtr::Swap of the variables i and j of h
Swap_CopyOnly(h, i, j) == [h EXCEPT ![i] = h[j]]
Swap(h, i, j) == [h EXCEPT ![i] = h[j], ![j] = h[i]]

\* E_DELETE(mpCounter)
DeleteCounter(r) ==
  /\ heap' = [heap EXCEPT ![r] = "freed"]
  /\ counter' = [counter EXCEPT ![r] = GCCounter]
  /\ frees' = [frees EXCEPT ![r] = Bump(@)]
  /\ uaf' = (uaf \/ heap[r] # "live")

Init ==
  /\ debug = "unknown"
  /\ heap = [r \in Rec |-> "unused"]
  /\ counter = [r \in Rec |-> GCCounter]
  /\ objAt = [a \in Addr |-> NULL]
  /\ mLiveList = <<>>
  /\ mCleaningUp = FALSE
  /\ mAllocatorMutex = NULL
  /\ mLiveListMutex = NULL
  /\ weak = [t \in Threads |-> [r \in Rec |-> 0]]
  /\ pc = [t \in Threads |-> "idle"]
  /\ local = [t \in Threads |-> NoLocal]
  /\ failed = "none"
  /\ uaf = FALSE
  /\ badDestroy = FALSE
  /\ destroys = [r \in Rec |-> 0]
  /\ collects = [r \in Rec |-> 0]
  /\ frees = [r \in Rec |-> 0]
  /\ cleaned = {}
  /\ uptr = [i \in Own |-> Unborn]
  /\ wptr = [k \in Shared |-> Unborn]
  /\ last = [op |-> "none", res |-> "none"]
  /\ tptr = Unborn
  /\ tmp = Unborn
  /\ member = [x \in Rec |-> NULL]
  /\ early = {}
  /\ dev = NoCall


\* ----------------------------------------------------------------- actions
Running == failed = "none"

\* thread t is inside GCWeakPtr::Reset of a handle
Resetting(t) == pc[t] \in {"reset_test", "reset_ptr", "reset_call", "collect"}
                \/ (/\ pc[t] \in {"ptr_destroy", "ptr_delete", "ptr_test", "ptr_act"}
                    /\ local[t].ctx = "collect")

\* handles of thread t with mpCounter = r, the one inside Reset excluded
Attached(t, r) ==
  IF Resetting(t) /\ local[t].r = r THEN weak[t][r] - 1 ELSE weak[t][r]

RECURSIVE Sum(_, _)
Sum(f, S) == IF S = {} THEN 0
             ELSE LET x == CHOOSE y \in S : TRUE IN f[x] + Sum(f, S \ {x})

\* thread t has a GCWeakPtr variable left to construct a handle into
HasEmpty(t) == Sum(weak[t], Rec) < MaxHandles

\* GCWeakPtr::Reset, line 656: mpCounter = nullptr, and return to the caller
Detach(t) ==
  /\ weak' = [weak EXCEPT ![t][local[t].r] = @ - 1]
  /\ pc' = [pc EXCEPT ![t] = "idle"]
  /\ local' = [local EXCEPT ![t] = NoLocal]

\* GCConcreteFactory::Create, first critical section: E_NEW under mAllocatorMutex
Create_Alloc_Holding(t) ==
  /\ Running /\ pc[t] = "idle"
  /\ FreshIds # {}
  /\ HasEmpty(t)
  /\ mAllocatorMutex = NULL
  /\ \E p \in NewAddr :
       /\ objAt' = [objAt EXCEPT ![p] = NextId]
       /\ local' = [local EXCEPT ![t] = [NoLocal EXCEPT !.r = NextId, !.p = p]]
  /\ pc' = [pc EXCEPT ![t] = "create_reg"]
  /\ mAllocatorMutex' = t
  /\ UNCHANGED <<debug, heap, counter, mLiveList, mCleaningUp,
                 mLiveListMutex, weak, failed, uaf, badDestroy, destroys,
                 collects, frees, cleaned>>
Create_Alloc(t) ==
  /\ Running /\ pc[t] = "idle"
  /\ FreshIds # {}
  /\ HasEmpty(t)
  /\ mAllocatorMutex = NULL
  /\ \E p \in NewAddr :
       /\ objAt' = [objAt EXCEPT ![p] = NextId]
       /\ local' = [local EXCEPT ![t] = [NoLocal EXCEPT !.r = NextId, !.p = p]]
  /\ pc' = [pc EXCEPT ![t] = "create_reg"]
  /\ UNCHANGED <<debug, heap, counter, mLiveList, mCleaningUp, mAllocatorMutex,
                 mLiveListMutex, weak, failed, uaf, badDestroy, destroys,
                 collects, frees, cleaned>>

\* the same critical section when the allocator has no memory: E_NEW yields
\* nullptr, and E_ASSERT_PTR(ptr) aborts a debug build
Create_AllocFail(t) ==
  /\ Running /\ pc[t] = "idle"
  /\ FreshIds # {}
  /\ HasEmpty(t)
  /\ mAllocatorMutex = NULL
  /\ \E d \in Builds :
       /\ debug' = d
       /\ IF d = "debug"
          THEN /\ failed' = "E_ASSERT_PTR"
               /\ UNCHANGED <<pc, local>>
          ELSE /\ pc' = [pc EXCEPT ![t] = "create_reg"]
               /\ local' = [local EXCEPT ![t] = [NoLocal EXCEPT !.r = NextId, !.p = NULL]]
               /\ UNCHANGED failed
  /\ UNCHANGED <<heap, counter, objAt, mLiveList, mCleaningUp,
                 mAllocatorMutex, mLiveListMutex, weak, uaf, badDestroy, destroys,
                 collects, frees, cleaned>>

\* GCConcreteFactory::Create, line 742: the mpCounter of the GCUniquePtr
\* involved in mLiveList.PushBack(Ptr(ptr, this)) once the new entry has been
\* copy constructed (lines 330-335) from the temporary that holds GCCounter r
Create_Handles(r) ==
  LET made == [temp |-> r, entry |-> NULL]
  IN  Swap(made, "entry", "temp")

\* the GCCounters that the GCUniquePtr of h other than the entry hold when
\* they are destroyed at the end of Create
Dropped(h) == {h[f] : f \in DOMAIN h \ {"entry"}} \ {NULL}

\* the end of Create with the GCUniquePtr h: the entry is appended and the Ref
\* returned is constructed from the back of the list.  The destructor of a
\* GCUniquePtr that still holds the new GCCounter runs Reset: Destroy(ptr) and,
\* count being 0, E_DELETE(mpCounter).
Register(t, h) ==
  LET r == local[t].r
      p == local[t].p
  IN  /\ mLiveList' = PushBack(mLiveList, h.entry)
      /\ weak' = [weak EXCEPT ![t][r] = 1]
      /\ IF Dropped(h) = {}
         THEN /\ heap' = [heap EXCEPT ![r] = "live"]
              /\ counter' = [counter EXCEPT ![r] =
                               [count |-> 1, ptr |-> p, pCollector |-> THIS]]
              /\ UNCHANGED <<objAt, destroys, frees, uaf>>
         ELSE /\ heap' = [heap EXCEPT ![r] = "freed"]
              /\ objAt' = IF p # NULL THEN [objAt EXCEPT ![p] = NULL] ELSE objAt
              /\ destroys' = [destroys EXCEPT ![r] = Bump(@)]
              /\ frees' = [frees EXCEPT ![r] = Bump(@)]
              /\ uaf' = TRUE
              /\ UNCHANGED counter

\* GCConcreteFactory::Create, second critical section: PushBack(Ptr(ptr, this))
\* and the Ref returned from the back of the list
Create_Register(t) ==
  /\ Running /\ pc[t] = "create_reg"
  /\ mLiveListMutex = NULL
  /\ Register(t, Create_Handles(local[t].r))
  /\ pc' = [pc EXCEPT ![t] = "idle"]
  /\ local' = [local EXCEPT ![t] = NoLocal]
  /\ UNCHANGED <<debug, mCleaningUp, mAllocatorMutex, mLiveListMutex,
                 failed, badDestroy, collects, cleaned>>

\* GCWeakPtr::GCWeakPtr(const GCWeakPtr& other): thread t constructs a handle
\* from a handle of thread s that s is not resetting
WeakPtr_Copy(t) ==
  /\ Running /\ pc[t] = "idle"
  /\ HasEmpty(t)
  /\ \E s \in Threads, r \in Rec :
       /\ Attached(s, r) > 0
       /\ weak' = [weak EXCEPT ![t][r] = @ + 1]
       /\ counter' = IF heap[r] = "live"
                     THEN [counter EXCEPT ![r].count = CountAfterAttach(@)]
                     ELSE counter
       /\ uaf' = (uaf \/ heap[r] # "live")
  /\ UNCHANGED <<debug, heap, objAt, mLiveList, mCleaningUp, mAllocatorMutex,
                 mLiveListMutex, pc, local, failed, badDestroy, destroys,
                 collects, frees, cleaned>>

\* GCWeakPtr::operator=(const GCWeakPtr& other), line 534: the temporary
\* GCWeakPtr(other) attaches to the source's GCCounter and Swap hands it the old
\* mpCounter r of the assigned handle; the temporary's destructor then runs Reset
WeakPtr_Assign(t) ==
  /\ Running /\ pc[t] = "idle"
  /\ \E r \in Rec, s \in Threads, n \in Rec :
       /\ weak[t][r] > 0
       /\ Attached(s, n) > 0
       /\ weak' = [weak EXCEPT ![t][n] = @ + 1]
       /\ counter' = IF heap[n] = "live"
                     THEN [counter EXCEPT ![n].count = CountAfterAttach(@)]
                     ELSE counter
       /\ uaf' = (uaf \/ heap[n] # "live")
       /\ local' = [local EXCEPT ![t] = [NoLocal EXCEPT !.r = r]]
  /\ pc' = [pc EXCEPT ![t] = "assign"]
  /\ UNCHANGED <<debug, heap, objAt, mLiveList, mCleaningUp, mAllocatorMutex,
                 mLiveListMutex, failed, badDestroy, destroys, collects, frees,
                 cleaned>>

\* GCWeakPtr::Reset, line 644: --(mpCounter->count), of a handle of thread t or
\* of the temporary of an assignment
WeakPtr_Reset(t) ==
  /\ Running /\ pc[t] \in {"idle", "assign"}
  /\ \E r \in Rec :
       /\ weak[t][r] > 0
       /\ pc[t] = "assign" => r = local[t].r
       /\ counter' = IF heap[r] = "live"
                     THEN [counter EXCEPT ![r].count = CountAfterDetach(@)]
                     ELSE counter
       /\ uaf' = (uaf \/ heap[r] # "live")
       /\ local' = [local EXCEPT ![t] =
                      [NoLocal EXCEPT !.r = r]]
  /\ pc' = [pc EXCEPT ![t] = "reset_test"]
  /\ UNCHANGED <<debug, heap, objAt, mLiveList, mCleaningUp, mAllocatorMutex,
                 mLiveListMutex, weak, failed, badDestroy, destroys, collects, frees,
                 cleaned>>

\* GCWeakPtr::Reset, line 645: if (mpCounter->count == 0)
WeakPtr_Reset_Test(t) ==
  /\ Running /\ pc[t] = "reset_test"
  /\ \E z \in ReadCountIsZero(local[t].r) :
       IF z THEN /\ pc' = [pc EXCEPT ![t] = "reset_ptr"]
                 /\ UNCHANGED <<weak, local>>
            ELSE Detach(t)
  /\ uaf' = (uaf \/ heap[local[t].r] # "live")
  /\ UNCHANGED <<debug, heap, counter, objAt, mLiveList, mCleaningUp,
                 mAllocatorMutex, mLiveListMutex, failed, badDestroy, destroys,
                 collects, frees, cleaned>>

\* GCWeakPtr::Reset, lines 647-651: if (ptr == nullptr) E_DELETE(mpCounter)
\* else if (pCollector) ...
WeakPtr_Reset_Ptr(t) ==
  /\ Running /\ pc[t] = "reset_ptr"
  /\ LET r == local[t].r IN
     \E p \in ReadPtr(r), c \in ReadCollector(r) :
       IF p = NULL
       THEN /\ DeleteCounter(r)
            /\ Detach(t)
       ELSE /\ IF c # NULL
               THEN /\ pc' = [pc EXCEPT ![t] = "reset_call"]
                    /\ UNCHANGED <<weak, local>>
               ELSE Detach(t)
            /\ uaf' = (uaf \/ heap[r] # "live")
            /\ UNCHANGED <<heap, counter, frees>>
  /\ UNCHANGED <<debug, objAt, mLiveList, mCleaningUp, mAllocatorMutex,
                 mLiveListMutex, failed, badDestroy, destroys, collects, cleaned>>

\* GCWeakPtr::Reset, line 653: mpCounter->pCollector->Collect(mpCounter->ptr)
WeakPtr_Reset_Call(t) ==
  /\ Running /\ pc[t] = "reset_call"
  /\ LET r == local[t].r IN
     /\ \E p \in ReadPtr(r) : local' = [local EXCEPT ![t].p = p]
     /\ collects' = [collects EXCEPT ![r] = Bump(@)]
     /\ uaf' = (uaf \/ heap[r] # "live")
  /\ pc' = [pc EXCEPT ![t] = "collect"]
  /\ UNCHANGED <<debug, heap, counter, objAt, mLiveList, mCleaningUp,
                 mAllocatorMutex, mLiveListMutex, weak, failed, badDestroy,
                 destroys, frees, cleaned>>

\* GCUniquePtr::operator==(const T*) applied to entry i of the live list:
\* the outcomes of mpCounter->ptr == ptr
EntryMatches_Always(i, p) == {TRUE}
EntryMatches(i, p) ==
  IF heap[mLiveList[i]] = "live" THEN {counter[mLiveList[i]].ptr = p} ELSE BOOLEAN

\* GCConcreteFactory::Collect, line 754: if (mCleaningUp)
TearingDown_Ignored == FALSE
TearingDown == mCleaningUp

\* GCConcreteFactory::Collect up to RemoveFast / E_ASSERT_ALWAYS
Collect(t) ==
  /\ Running /\ pc[t] = "collect"
  /\ mLiveListMutex = NULL
  /\ IF TearingDown
     THEN /\ Detach(t)
          /\ UNCHANGED <<mLiveList, mLiveListMutex, failed, uaf>>
     ELSE \/ \E i \in 1..Len(mLiveList) :
               /\ TRUE \in EntryMatches(i, local[t].p)
               /\ \A j \in 1..(i - 1) : FALSE \in EntryMatches(j, local[t].p)
               /\ mLiveList' = RemoveFast(mLiveList, i)
               /\ mLiveListMutex' = t
               /\ local' = [local EXCEPT ![t].e = mLiveList[i], ![t].ctx = "collect"]
               /\ pc' = [pc EXCEPT ![t] = "ptr_destroy"]
               /\ uaf' = (uaf \/ \E j \in 1..i : heap[mLiveList[j]] # "live")
               /\ UNCHANGED <<weak, failed>>
          \/ /\ \A j \in 1..Len(mLiveList) : FALSE \in EntryMatches(j, local[t].p)
             /\ failed' = "E_ASSERT_ALWAYS"
             /\ uaf' = (uaf \/ \E j \in 1..Len(mLiveList) : heap[mLiveList[j]] # "live")
             /\ UNCHANGED <<mLiveList, mLiveListMutex, weak, pc, local>>
  /\ UNCHANGED <<debug, heap, counter, objAt, mCleaningUp, mAllocatorMutex,
                 badDestroy, destroys, collects, frees, cleaned>>

\* GCUniquePtr::Reset, line 419: pCollector->Destroy(mpCounter->ptr) up to
\* Threads::Lock l(mAllocatorMutex), line 772
Destroy_Lock(t) ==
  /\ Running /\ pc[t] = "ptr_destroy"
  /\ mAllocatorMutex = NULL
  /\ mAllocatorMutex' = t
  /\ \E p \in ReadPtr(local[t].e) : local' = [local EXCEPT ![t].p = p]
  /\ uaf' = (uaf \/ heap[local[t].e] # "live")
  /\ pc' = [pc EXCEPT ![t] = "ptr_delete"]
  /\ UNCHANGED <<debug, heap, counter, objAt, mLiveList, mCleaningUp,
                 mLiveListMutex, weak, failed, badDestroy, destroys,
                 collects, frees, cleaned>>

\* GCConcreteFactory::Destroy, lines 773-775: E_ASSERT(ptr), which aborts a debug
\* build, E_DELETE(ptr) and the release of mAllocatorMutex
Destroy(t) ==
  /\ Running /\ pc[t] = "ptr_delete"
  /\ LET p == local[t].p IN
       IF p = NULL
       THEN \E d \in Builds :
              /\ debug' = d
              /\ IF d = "debug"
                 THEN /\ failed' = "E_ASSERT"
                      /\ UNCHANGED <<pc, mAllocatorMutex>>
                 ELSE /\ pc' = [pc EXCEPT ![t] = "ptr_test"]
                      /\ mAllocatorMutex' = NULL
                      /\ UNCHANGED failed
              /\ UNCHANGED <<objAt, destroys, badDestroy>>
       ELSE /\ objAt' = [objAt EXCEPT ![p] = NULL]
            /\ destroys' = IF objAt[p] # NULL
                           THEN [destroys EXCEPT ![objAt[p]] = Bump(@)]
                           ELSE destroys
            /\ badDestroy' = (badDestroy \/ objAt[p] = NULL)
            /\ pc' = [pc EXCEPT ![t] = "ptr_test"]
            /\ mAllocatorMutex' = NULL
            /\ UNCHANGED <<failed, debug>>
  /\ cleaned' = IF local[t].ctx = "cleanup" THEN cleaned \cup {local[t].e} ELSE cleaned
  /\ local' = [local EXCEPT ![t].p = NULL]
  /\ UNCHANGED <<heap, counter, mLiveList, mCleaningUp, mLiveListMutex, weak,
                 uaf, collects, frees>>

\* GCUniquePtr::Reset, line 420: the test mpCounter->count == 0
UniquePtr_Reset_Test(t) ==
  /\ Running /\ pc[t] = "ptr_test"
  /\ \E z \in ReadCountIsZero(local[t].e) : local' = [local EXCEPT ![t].z = z]
  /\ uaf' = (uaf \/ heap[local[t].e] # "live")
  /\ pc' = [pc EXCEPT ![t] = "ptr_act"]
  /\ UNCHANGED <<debug, heap, counter, objAt, mLiveList, mCleaningUp,
                 mAllocatorMutex, mLiveListMutex, weak, failed, badDestroy,
                 destroys, collects, frees, cleaned>>

\* GCConcreteFactory::CleanUp, lines 725-727, under mLiveListMutex:
\* mLiveList.Clear() destroys the next entry, or, the list being empty,
\* mCleaningUp = false and the lock is released
Clear_Unlocked(t) ==
  IF mLiveList # <<>>
  THEN /\ mLiveList' = Tail(mLiveList)
       /\ local' = [local EXCEPT ![t] =
                      [NoLocal EXCEPT !.e = Head(mLiveList), !.ctx = "cleanup"]]
       /\ pc' = [pc EXCEPT ![t] = "ptr_destroy"]
       /\ mCleaningUp' = TRUE
       /\ mLiveListMutex' = NULL
  ELSE /\ mCleaningUp' = FALSE
       /\ mLiveListMutex' = NULL
       /\ pc' = [pc EXCEPT ![t] = "idle"]
       /\ local' = [local EXCEPT ![t] = NoLocal]
       /\ UNCHANGED mLiveList
Clear(t) ==
  IF mLiveList # <<>>
  THEN /\ mLiveList' = Tail(mLiveList)
       /\ local' = [local EXCEPT ![t] =
                      [NoLocal EXCEPT !.e = Head(mLiveList), !.ctx = "cleanup"]]
       /\ pc' = [pc EXCEPT ![t] = "ptr_destroy"]
       /\ mCleaningUp' = TRUE
       /\ mLiveListMutex' = t
  ELSE /\ mCleaningUp' = FALSE
       /\ mLiveListMutex' = NULL
       /\ pc' = [pc EXCEPT ![t] = "idle"]
       /\ local' = [local EXCEPT ![t] = NoLocal]
       /\ UNCHANGED mLiveList

\* GCUniquePtr::Reset, line 420: E_DELETE(mpCounter) or mpCounter->ptr = nullptr,
\* then the return into Collect (unlock, return into GCWeakPtr::Reset) or into
\* the Clear of CleanUp
UniquePtr_Reset(t) ==
  /\ Running /\ pc[t] = "ptr_act"
  /\ LET e == local[t].e IN
     IF local[t].z
     THEN DeleteCounter(e)
     ELSE /\ counter' = ClearPtr(e)
          /\ uaf' = (uaf \/ heap[e] # "live")
          /\ UNCHANGED <<heap, frees>>
  /\ IF local[t].ctx = "collect"
     THEN /\ mLiveListMutex' = NULL
          /\ Detach(t)
          /\ UNCHANGED <<mLiveList, mCleaningUp>>
     ELSE /\ Clear(t)
          /\ UNCHANGED weak
  /\ UNCHANGED <<debug, objAt, mAllocatorMutex, failed, badDestroy, destroys,
                 collects, cleaned>>

\* GCConcreteFactory::CleanUp, lines 723-725
CleanUp_FlagLeftSet(t) ==
  /\ Running /\ pc[t] = "idle"
  /\ mLiveListMutex = NULL
  /\ IF mLiveList # <<>>
     THEN Clear(t)
     ELSE /\ mCleaningUp' = TRUE
          /\ UNCHANGED <<mLiveList, mLiveListMutex, pc, local>>
  /\ UNCHANGED <<debug, heap, counter, objAt, mAllocatorMutex, weak, failed, uaf,
                 badDestroy, destroys, collects, frees, cleaned>>
CleanUp(t) ==
  /\ Running /\ pc[t] = "idle"
  /\ mLiveListMutex = NULL
  /\ Clear(t)
  /\ UNCHANGED <<debug, heap, counter, objAt, mAllocatorMutex, weak, failed, uaf,
                 badDestroy, destroys, collects, frees, cleaned>>

Step(t) ==
  /\ \/ Create_Alloc(t)
     \/ Create_Register(t)
     \/ WeakPtr_Copy(t)
     \/ WeakPtr_Assign(t)
     \/ WeakPtr_Reset(t)
     \/ WeakPtr_Reset_Test(t)
     \/ WeakPtr_Reset_Ptr(t)
     \/ WeakPtr_Reset_Call(t)
     \/ Collect(t)
     \/ Destroy_Lock(t)
     \/ Destroy(t)
     \/ UniquePtr_Reset_Test(t)
     \/ UniquePtr_Reset(t)
     \/ CleanUp(t)
  /\ UNCHANGED hvars

Next == \E t \in Threads : Step(t)

Spec == Init /\ [][Next]_vars

\* one thread only
NextSeq == Step(1)

SpecSeq == Init /\ [][NextSeq]_vars

\* thread 1 creates objects and copies, assigns and drops handles while
\* thread 2 calls CleanUp
NextTeardown ==
  /\ \/ Create_Alloc(1)
     \/ Create_Register(1)
     \/ WeakPtr_Copy(1)
     \/ WeakPtr_Assign(1)
     \/ WeakPtr_Reset(1)
     \/ WeakPtr_Reset_Test(1)
     \/ WeakPtr_Reset_Ptr(1)
     \/ WeakPtr_Reset_Call(1)
     \/ Collect(1)
     \/ CleanUp(2)
     \/ \E t \in Threads : \/ Destroy_Lock(t) \/ Destroy(t)
                           \/ UniquePtr_Reset_Test(t) \/ UniquePtr_Reset(t)
  /\ UNCHANGED hvars

SpecTeardown == Init /\ [][NextTeardown]_vars

\* the scheduler is fair to every thread, and a thread waiting in Mutex::Lock
\* for a mutex that is released again and again eventually acquires it
FairSpec == Spec /\ \A t \in Threads : SF_vars(Step(t))

\* the allocator may run out of memory
NextOOM == \E t \in Threads : Step(t) \/ (Create_AllocFail(t) /\ UNCHANGED hvars)

SpecOOM == Init /\ [][NextOOM]_vars

\* IGarbageCollector<T>::Collect(ptr), line 71, called on the factory for an
\* object, living or not, that no entry of its live list holds
Collect_NotOwned(t) ==
  /\ Running /\ pc[t] = "idle"
  /\ \E p \in Addr \cup {NULL} :
       /\ \A i \in 1..Len(mLiveList) : counter[mLiveList[i]].ptr # p
       /\ local' = [local EXCEPT ![t] = [NoLocal EXCEPT !.p = p]]
  /\ pc' = [pc EXCEPT ![t] = "collect"]
  /\ UNCHANGED <<debug, heap, counter, objAt, mLiveList, mCleaningUp,
                 mAllocatorMutex, mLiveListMutex, weak, failed, uaf, badDestroy,
                 destroys, collects, frees, cleaned>>
  /\ UNCHANGED hvars

\* ~GCConcreteFactory, lines 681-685, run by thread t when no call is in
\* progress: E_ASSERT_MSG(mLiveList.IsEmpty(), ...) aborts a debug build; after
\* it the factory is gone and t makes no further call
GCConcreteFactory_Destructor(t) ==
  /\ Running /\ \A s \in Threads : pc[s] = "idle"
  /\ IF mLiveList = <<>>
     THEN UNCHANGED <<debug, failed>>
     ELSE \E d \in Builds :
            /\ debug' = d
            /\ failed' = IF d = "debug" THEN "E_ASSERT_MSG" ELSE failed
  /\ pc' = [pc EXCEPT ![t] = "gone"]
  /\ UNCHANGED <<heap, counter, objAt, mLiveList, mCleaningUp, mAllocatorMutex,
                 mLiveListMutex, weak, local, uaf, badDestroy, destroys, collects,
                 frees, cleaned>>
  /\ UNCHANGED hvars

\* one thread uses the factory from its construction to its destruction, and
\* may hand Collect an object the factory does not own
NextSolo ==
  \/ Step(1)
  \/ Collect_NotOwned(1)
  \/ GCConcreteFactory_Destructor(1)

SpecSolo == Init /\ [][NextSolo]_vars

\* ------------------------------------------- objects that hold a handle
\* The type T of the objects is the client's.  Here an object may hold a
\* GCWeakPtr to an object of the same factory as a data member, which ~T
\* destroys: E_DELETE(ptr) in Destroy then runs GCWeakPtr::Reset on the thread
\* that is inside CleanUp or Collect, with mLiveListMutex and mAllocatorMutex
\* held.  One thread uses the factory, so the nested call is part of the step
\* of Destroy.

\* thread t stores a copy of its handle to m in the object it reaches through
\* its handle to r (GCWeakPtr copy: ++count)
Object_Attach(t) ==
  /\ Running /\ pc[t] = "idle"
  /\ \E r \in Rec, m \in Rec :
       /\ weak[t][r] > 0 /\ heap[r] = "live" /\ counter[r].ptr # NULL
       /\ member[r] = NULL
       /\ weak[t][m] > 0 /\ heap[m] = "live"
       /\ member' = [member EXCEPT ![r] = m]
       /\ counter' = [counter EXCEPT ![m].count = CountAfterAttach(@)]
  /\ UNCHANGED <<debug, heap, objAt, mLiveList, mCleaningUp, mAllocatorMutex,
                 mLiveListMutex, weak, pc, local, failed, uaf, badDestroy,
                 destroys, collects, frees, cleaned, early>>
  /\ UNCHANGED <<cvars, dev>>

\* the Reset of the last handle to r would run Collect for r outside CleanUp
\* and the destructor of r's object would, inside it, run Collect for another
\* object: a Collect that re-enters RemoveFast of Containers::List
Chain(r) ==
  /\ counter[r].count = 1 /\ counter[r].ptr # NULL
  /\ member[r] # NULL
  /\ counter[member[r]].count = 1 /\ counter[member[r]].ptr # NULL

\* GCConcreteFactory::Destroy, lines 773-775, of object x at address p whose
\* member handle is attached to m: E_DELETE(ptr) runs ~T and with it
\* GCWeakPtr::Reset, lines 639-658, of the member.  Its Collect, line 753, locks
\* mLiveListMutex again on the thread that holds it: Mutex::Lock either lets the
\* owner in or blocks for ever.
Destroy_Object(t) ==
  /\ Running /\ pc[t] = "ptr_delete"
  /\ LET p == local[t].p
         x == IF p = NULL THEN NULL ELSE objAt[p]
         m == IF x = NULL THEN NULL ELSE member[x]
         c == CountAfterDetach(counter[m].count)
         done == /\ pc' = [pc EXCEPT ![t] = "ptr_test"]
                 /\ mAllocatorMutex' = NULL
                 /\ member' = [member EXCEPT ![x] = NULL]
                 /\ cleaned' = IF local[t].ctx = "cleanup"
                               THEN cleaned \cup {local[t].e} ELSE cleaned
                 /\ local' = [local EXCEPT ![t].p = NULL]
     IN
     IF m = NULL
     THEN Destroy(t) /\ UNCHANGED <<member, early>>
     ELSE
       /\ heap[m] = "live"
       /\ IF c # 0 \/ counter[m].pCollector = NULL
          THEN /\ counter' = [counter EXCEPT ![m].count = c]
               /\ objAt' = [objAt EXCEPT ![p] = NULL]
               /\ destroys' = [destroys EXCEPT ![x] = Bump(@)]
               /\ done
               /\ UNCHANGED <<heap, frees, uaf, collects, early, mLiveList,
                              failed>>
          ELSE IF counter[m].ptr = NULL
          THEN /\ DeleteCounter(m)
               /\ objAt' = [objAt EXCEPT ![p] = NULL]
               /\ destroys' = [destroys EXCEPT ![x] = Bump(@)]
               /\ done
               /\ UNCHANGED <<collects, early, mLiveList, failed>>
          ELSE
            /\ collects' = [collects EXCEPT ![m] = Bump(@)]
            /\ \E recursive \in BOOLEAN :
                 IF ~recursive
                 THEN /\ pc' = [pc EXCEPT ![t] = "blocked"]
                      /\ counter' = [counter EXCEPT ![m].count = c]
                      /\ UNCHANGED <<heap, frees, uaf, objAt, destroys, early,
                                     mLiveList, failed, mAllocatorMutex, member,
                                     cleaned, local>>
                 ELSE IF TearingDown
                 THEN /\ early' = early \cup {m}
                      /\ counter' = [counter EXCEPT ![m].count = c]
                      /\ objAt' = [objAt EXCEPT ![p] = NULL]
                      /\ destroys' = [destroys EXCEPT ![x] = Bump(@)]
                      /\ done
                      /\ UNCHANGED <<heap, frees, uaf, mLiveList, failed>>
                 ELSE IF \E i \in 1..Len(mLiveList) : mLiveList[i] = m
                 THEN \* the entry is found, removed and destroyed; an object
                      \* with a member handle of its own is not followed
                      /\ member[m] = NULL
                      /\ mLiveList' = RemoveFast(mLiveList,
                            CHOOSE i \in 1..Len(mLiveList) : mLiveList[i] = m)
                      /\ objAt' = [objAt EXCEPT ![p] = NULL,
                                                ![counter[m].ptr] = NULL]
                      /\ destroys' = [destroys EXCEPT ![x] = Bump(@),
                                                      ![m] = Bump(@)]
                      /\ DeleteCounter(m)
                      /\ done
                      /\ UNCHANGED <<early, failed>>
                 ELSE /\ failed' = "E_ASSERT_ALWAYS"
                      /\ counter' = [counter EXCEPT ![m].count = c]
                      /\ UNCHANGED <<heap, frees, uaf, objAt, destroys, early,
                                     mLiveList, pc, mAllocatorMutex, member,
                                     cleaned, local>>
       /\ UNCHANGED <<debug, badDestroy>>
  /\ UNCHANGED <<mCleaningUp, mLiveListMutex, weak>>
  /\ UNCHANGED <<cvars, dev>>

\* one thread creates objects, stores handles in them, copies and drops
\* handles and calls CleanUp
NextNested ==
  \/ /\ \/ Create_Alloc(1)
        \/ Create_Register(1)
        \/ WeakPtr_Copy(1)
        \/ WeakPtr_Reset(1) /\ ~Chain(local'[1].r)
        \/ WeakPtr_Reset_Test(1)
        \/ WeakPtr_Reset_Ptr(1)
        \/ WeakPtr_Reset_Call(1)
        \/ Collect(1)
        \/ Destroy_Lock(1)
        \/ UniquePtr_Reset_Test(1)
        \/ UniquePtr_Reset(1)
        \/ CleanUp(1)
     /\ UNCHANGED hvars
  \/ Object_Attach(1)
  \/ Destroy_Object(1)

SpecNested == Init /\ [][NextNested]_vars

\* ------------------------------------------------------- GCGenericFactory
\* GCGenericFactory has the members and the methods of GCConcreteFactory, with
\* mFactory.Create(typeID) and mFactory.Destroy(ptr) under mFactoryMutex in the
\* place of E_NEW and E_DELETE under mAllocatorMutex, and one more statement at
\* the end of CleanUp.  The threads of the actions above stand for its callers;
\* mAllocatorMutex stands for mFactoryMutex, and an object that has an address
\* is an object mFactory has created and not destroyed.

\* GCGenericFactory::Create, lines 820-830: the mpCounter of the GCUniquePtr
\* involved once Ptr ptr has been assigned (operator=, lines 358-363) the
\* temporary Ptr(mFactory.Create(typeID), this) that holds GCCounter r and the
\* new entry has been copy constructed from ptr by mLiveList.PushBack(ptr)
GCGenericFactory_Create_Handles(r) ==
  LET made == [ptr |-> NULL, temp |-> r, entry |-> NULL]
      assigned == Swap(made, "ptr", "temp")
  IN  Swap(assigned, "entry", "ptr")

\* GCGenericFactory::Create, lines 827-830, under mLiveListMutex
GCGenericFactory_Create_Register(t) ==
  /\ Running /\ pc[t] = "create_reg"
  /\ mLiveListMutex = NULL
  /\ Register(t, GCGenericFactory_Create_Handles(local[t].r))
  /\ pc' = [pc EXCEPT ![t] = "idle"]
  /\ local' = [local EXCEPT ![t] = NoLocal]
  /\ UNCHANGED <<debug, mCleaningUp, mAllocatorMutex, mLiveListMutex,
                 failed, badDestroy, collects, cleaned>>

\* mFactory.GetLiveCount()
Factory_GetLiveCount == Cardinality({a \in Addr : objAt[a] # NULL})

\* GCGenericFactory::CleanUp, lines 806-808, under mLiveListMutex: Clear()
\* destroys the next entry, or, the list being empty, mCleaningUp = false
GCGenericFactory_Clear(t) ==
  IF mLiveList # <<>>
  THEN /\ mLiveList' = Tail(mLiveList)
       /\ local' = [local EXCEPT ![t] =
                      [NoLocal EXCEPT !.e = Head(mLiveList), !.ctx = "cleanup"]]
       /\ pc' = [pc EXCEPT ![t] = "ptr_destroy"]
       /\ mCleaningUp' = TRUE
       /\ mLiveListMutex' = t
  ELSE /\ mCleaningUp' = FALSE
       /\ mLiveListMutex' = t
       /\ pc' = [pc EXCEPT ![t] = "cleanup_check"]
       /\ local' = [local EXCEPT ![t] = NoLocal]
       /\ UNCHANGED mLiveList

\* GCUniquePtr::Reset, line 420, of an entry of the generic factory
GCGenericFactory_UniquePtr_Reset(t) ==
  /\ Running /\ pc[t] = "ptr_act"
  /\ LET e == local[t].e IN
     IF local[t].z
     THEN DeleteCounter(e)
     ELSE /\ counter' = ClearPtr(e)
          /\ uaf' = (uaf \/ heap[e] # "live")
          /\ UNCHANGED <<heap, frees>>
  /\ IF local[t].ctx = "collect"
     THEN /\ mLiveListMutex' = NULL
          /\ Detach(t)
          /\ UNCHANGED <<mLiveList, mCleaningUp>>
     ELSE /\ GCGenericFactory_Clear(t)
          /\ UNCHANGED weak
  /\ UNCHANGED <<debug, objAt, mAllocatorMutex, failed, badDestroy, destroys,
                 collects, cleaned>>

\* GCGenericFactory::CleanUp, lines 805-807
GCGenericFactory_CleanUp(t) ==
  /\ Running /\ pc[t] = "idle"
  /\ mLiveListMutex = NULL
  /\ GCGenericFactory_Clear(t)
  /\ UNCHANGED <<debug, heap, counter, objAt, mAllocatorMutex, weak, failed, uaf,
                 badDestroy, destroys, collects, frees, cleaned>>

\* GCGenericFactory::CleanUp, lines 809-816: in a debug build
\* E_ASSERT(mFactory.GetLiveCount() == 0) under mFactoryMutex; then the return,
\* which releases mLiveListMutex
GCGenericFactory_CleanUp_Check(t) ==
  /\ Running /\ pc[t] = "cleanup_check"
  /\ \E d \in Builds :
       /\ debug' = d
       /\ IF d = "debug" /\ Factory_GetLiveCount # 0
          THEN /\ mAllocatorMutex = NULL
               /\ failed' = "E_ASSERT"
               /\ UNCHANGED <<pc, mLiveListMutex>>
          ELSE /\ d = "debug" => mAllocatorMutex = NULL
               /\ pc' = [pc EXCEPT ![t] = "idle"]
               /\ mLiveListMutex' = NULL
               /\ UNCHANGED failed
  /\ UNCHANGED <<heap, counter, objAt, mLiveList, mCleaningUp, mAllocatorMutex,
                 weak, local, uaf, badDestroy, destroys, collects, frees, cleaned>>

GCGenericFactory_Step(t) ==
  /\ \/ Create_Alloc(t)
     \/ GCGenericFactory_Create_Register(t)
     \/ WeakPtr_Copy(t)
     \/ WeakPtr_Assign(t)
     \/ WeakPtr_Reset(t)
     \/ WeakPtr_Reset_Test(t)
     \/ WeakPtr_Reset_Ptr(t)
     \/ WeakPtr_Reset_Call(t)
     \/ Collect(t)
     \/ Destroy_Lock(t)
     \/ Destroy(t)
     \/ UniquePtr_Reset_Test(t)
     \/ GCGenericFactory_UniquePtr_Reset(t)
     \/ GCGenericFactory_CleanUp(t)
     \/ GCGenericFactory_CleanUp_Check(t)
  /\ UNCHANGED hvars

NextGeneric == \E t \in Threads : GCGenericFactory_Step(t)

SpecGeneric == Init /\ [][NextGeneric]_vars

\* the callers of the generic factory create objects, copy and drop handles
\* and call CleanUp
GCGenericFactory_Use(t) ==
  /\ \/ Create_Alloc(t)
     \/ GCGenericFactory_Create_Register(t)
     \/ WeakPtr_Copy(t)
     \/ WeakPtr_Reset(t)
     \/ WeakPtr_Reset_Test(t)
     \/ WeakPtr_Reset_Ptr(t)
     \/ WeakPtr_Reset_Call(t)
     \/ Collect(t)
     \/ Destroy_Lock(t)
     \/ Destroy(t)
     \/ UniquePtr_Reset_Test(t)
     \/ GCGenericFactory_UniquePtr_Reset(t)
     \/ GCGenericFactory_CleanUp(t)
     \/ GCGenericFactory_CleanUp_Check(t)
  /\ UNCHANGED hvars

NextGenericUse == \E t \in Threads : GCGenericFactory_Use(t)

SpecGenericUse == Init /\ [][NextGenericUse]_vars


\* --------------------------------------------------------------- accessors
\* An accessor locks one mutex, executes one statement and returns.  The
\* allocator and the builder table have no state in the model.

\* Threads::Lock l(mutex) of accessor name, called by a thread outside a call
Accessor_Lock(t, name, mutex) ==
  /\ Running /\ pc[t] = "idle"
  /\ IF mutex = "mLiveListMutex"
     THEN /\ mLiveListMutex = NULL /\ mLiveListMutex' = t
          /\ UNCHANGED mAllocatorMutex
     ELSE /\ mAllocatorMutex = NULL /\ mAllocatorMutex' = t
          /\ UNCHANGED mLiveListMutex
  /\ pc' = [pc EXCEPT ![t] = "accessor"]
  /\ local' = [local EXCEPT ![t] = [NoLocal EXCEPT !.ctx = name]]
  /\ UNCHANGED <<debug, heap, counter, objAt, mLiveList, mCleaningUp, weak,
                 failed, uaf, badDestroy, destroys, collects, frees, cleaned>>
  /\ UNCHANGED hvars

\* GCConcreteFactory::GetAllocator, lines 691-697
GetAllocator(t) == Accessor_Lock(t, "GetAllocator", "mAllocatorMutex")

\* GCConcreteFactory::SetAllocator, lines 707-713
SetAllocator(t) == Accessor_Lock(t, "SetAllocator", "mAllocatorMutex")

\* GCConcreteFactory::GetLiveCount, lines 699-705
GetLiveCount(t) == Accessor_Lock(t, "GetLiveCount", "mLiveListMutex")

\* GCGenericFactory::GetLiveCount, lines 789-795, under mFactoryMutex
GCGenericFactory_GetLiveCount(t) ==
  Accessor_Lock(t, "GCGenericFactory::GetLiveCount", "mFactoryMutex")

\* GCGenericFactory::Register, lines 833-839, under mFactoryMutex
GCGenericFactory_Register(t) ==
  Accessor_Lock(t, "GCGenericFactory::Register", "mFactoryMutex")

\* GCGenericFactory::Unregister, lines 841-847, under mFactoryMutex
GCGenericFactory_Unregister(t) ==
  Accessor_Lock(t, "GCGenericFactory::Unregister", "mFactoryMutex")

\* the return of an accessor releases the mutex it locked
Accessor_Return(t) ==
  /\ Running /\ pc[t] = "accessor"
  /\ mLiveListMutex' = IF mLiveListMutex = t THEN NULL ELSE mLiveListMutex
  /\ mAllocatorMutex' = IF mAllocatorMutex = t THEN NULL ELSE mAllocatorMutex
  /\ pc' = [pc EXCEPT ![t] = "idle"]
  /\ local' = [local EXCEPT ![t] = NoLocal]
  /\ UNCHANGED <<debug, heap, counter, objAt, mLiveList, mCleaningUp, weak,
                 failed, uaf, badDestroy, destroys, collects, frees, cleaned>>
  /\ UNCHANGED hvars

\* one thread uses a factory of objects that hold handles: it creates objects,
\* stores handles in them, copies and drops handles, calls CleanUp and calls
\* the accessors of both classes; CleanUp is the generic factory's, which is
\* the concrete factory's followed by the cross-check
NextLocks ==
  \/ /\ \/ Create_Alloc(1)
        \/ GCGenericFactory_Create_Register(1)
        \/ WeakPtr_Copy(1)
        \/ WeakPtr_Reset(1) /\ ~Chain(local'[1].r)
        \/ WeakPtr_Reset_Test(1)
        \/ WeakPtr_Reset_Ptr(1)
        \/ WeakPtr_Reset_Call(1)
        \/ Collect(1)
        \/ Destroy_Lock(1)
        \/ UniquePtr_Reset_Test(1)
        \/ GCGenericFactory_UniquePtr_Reset(1)
        \/ GCGenericFactory_CleanUp(1)
        \/ GCGenericFactory_CleanUp_Check(1)
     /\ UNCHANGED hvars
  \/ Object_Attach(1)
  \/ Destroy_Object(1)
  \/ GetAllocator(1)
  \/ SetAllocator(1)
  \/ GetLiveCount(1)
  \/ GCGenericFactory_GetLiveCount(1)
  \/ GCGenericFactory_Register(1)
  \/ GCGenericFactory_Unregister(1)
  \/ Accessor_Return(1)

SpecLocks == Init /\ [][NextLocks]_vars


\* ------------------------------------------------------------- DX11Device
\* The device owns its factories as members; mBlendStateFactory is modelled,
\* and Finalize calls CleanUp on each of the others in the same way.  Thread t
\* is the thread that uses the device; dev.at is the statement it is at.

\* the statement the caller continues with when the call it is in is over
After(at) ==
  CASE at = "assign" -> "return"
    [] at = "local" -> "ready"
    [] at = "Finalize" -> "ready"
    [] at = "~DX11Device" -> "members"
    [] at = "ready" -> "ready"

\* a step inside Create, Reset or CleanUp made for the device: dev moves on
\* when the call returns
DX11Device_Resume(t) ==
  dev' = IF pc'[t] = "idle" THEN [dev EXCEPT !.at = After(dev.at)] ELSE dev

\* DX11Device::CreateBlendState, lines 242-243: the live count is read for the
\* log line and mBlendStateFactory.Create() begins
DX11Device_CreateBlendState(t) ==
  /\ dev.at = "ready"
  /\ Create_Alloc(t)
  /\ dev' = [NoCall EXCEPT !.at = "Create", !.before = Len(mLiveList)]

\* line 243: Create() returns the handle the local blendState is built from
DX11Device_Create(t) ==
  /\ dev.at = "Create"
  /\ Create_Register(t)
  /\ dev' = [dev EXCEPT !.at = "Initialize", !.blendState = local[t].r]

\* line 244: if (!blendState->Initialize(desc)) blendState = nullptr.  The
\* assignment is GCWeakPtr::operator=(T*), lines 565-566, which runs Reset
DX11Device_Initialize_Ignored(t) ==
  /\ Running /\ pc[t] = "idle"
  /\ dev.at = "Initialize"
  /\ \E ok \in BOOLEAN :
       /\ dev' = [dev EXCEPT !.at = "return",
                             !.initialized = IF ok THEN "ok" ELSE "failed"]
       /\ UNCHANGED <<debug, heap, counter, objAt, mLiveList, mCleaningUp,
                      mAllocatorMutex, mLiveListMutex, weak, pc, local,
                      failed, uaf, badDestroy, destroys, collects, frees,
                      cleaned>>
DX11Device_Initialize(t) ==
  /\ Running /\ pc[t] = "idle"
  /\ dev.at = "Initialize"
  /\ \E ok \in BOOLEAN :
       IF ok
       THEN /\ dev' = [dev EXCEPT !.at = "return", !.initialized = "ok"]
            /\ UNCHANGED <<debug, heap, counter, objAt, mLiveList, mCleaningUp,
                           mAllocatorMutex, mLiveListMutex, weak, pc, local,
                           failed, uaf, badDestroy, destroys, collects, frees,
                           cleaned>>
       ELSE /\ dev' = [dev EXCEPT !.at = "assign", !.initialized = "failed"]
            /\ WeakPtr_Reset(t)
            /\ local'[t].r = dev.blendState

\* line 245: return blendState.  The IBlendStateInstance returned is built from
\* the local by GCWeakPtr(const GCWeakPtr<U>&), lines 487-495: ++count unless
\* mpCounter is null; then the destructor of the local runs Reset, which does
\* nothing to a handle whose mpCounter is null
DX11Device_Return(t) ==
  /\ Running /\ pc[t] = "idle"
  /\ dev.at = "return"
  /\ LET r == dev.blendState IN
     IF weak[t][r] > 0
     THEN /\ weak' = [weak EXCEPT ![t][r] = @ + 1]
          /\ counter' = IF heap[r] = "live"
                        THEN [counter EXCEPT ![r].count = CountAfterAttach(@)]
                        ELSE counter
          /\ uaf' = (uaf \/ heap[r] # "live")
          /\ dev' = [dev EXCEPT !.at = "local", !.ret = r]
     ELSE /\ dev' = [dev EXCEPT !.at = "ready", !.ret = NULL]
          /\ UNCHANGED <<weak, counter, uaf>>
  /\ UNCHANGED <<debug, heap, objAt, mLiveList, mCleaningUp, mAllocatorMutex,
                 mLiveListMutex, pc, local, failed, badDestroy, destroys,
                 collects, frees, cleaned>>

\* line 246: ~GCWeakPtr of the local blendState, line 524
DX11Device_Local(t) ==
  /\ dev.at = "local"
  /\ WeakPtr_Reset(t)
  /\ local'[t].r = dev.blendState
  /\ UNCHANGED dev

\* DX11Device::Finalize, line 108: mBlendStateFactory.CleanUp()
DX11Device_Finalize(t) ==
  /\ dev.at = "ready"
  /\ CleanUp(t)
  /\ dev' = [dev EXCEPT !.at = IF pc'[t] = "idle" THEN "ready" ELSE "Finalize"]

\* DX11Device::~DX11Device, line 49: Finalize(); the destructors of the members
\* follow it
DX11Device_Destructor_NoFinalize(t) ==
  /\ Running /\ pc[t] = "idle"
  /\ dev.at = "ready"
  /\ dev' = [dev EXCEPT !.at = "members"]
  /\ UNCHANGED <<debug, heap, counter, objAt, mLiveList, mCleaningUp,
                 mAllocatorMutex, mLiveListMutex, weak, pc, local, failed, uaf,
                 badDestroy, destroys, collects, frees, cleaned>>
DX11Device_Destructor(t) ==
  /\ dev.at = "ready"
  /\ CleanUp(t)
  /\ dev' = [dev EXCEPT !.at = IF pc'[t] = "idle" THEN "members"
                                ELSE "~DX11Device"]

\* the destructor of the member mBlendStateFactory
DX11Device_Members(t) ==
  /\ dev.at = "members"
  /\ GCConcreteFactory_Destructor(t)

\* one thread creates blend states through the device, copies and drops the
\* handles it was given, and finalizes or destroys the device
NextDevice ==
  \/ /\ \/ DX11Device_CreateBlendState(1)
        \/ DX11Device_Create(1)
        \/ DX11Device_Initialize(1)
        \/ DX11Device_Return(1)
        \/ DX11Device_Local(1)
        \/ DX11Device_Finalize(1)
        \/ DX11Device_Destructor(1)
     /\ UNCHANGED <<cvars, member, early>>
  \/ /\ dev.at = "ready"
     /\ \/ WeakPtr_Copy(1)
        \/ WeakPtr_Reset(1)
     /\ UNCHANGED hvars
  \/ /\ \/ WeakPtr_Reset_Test(1)
        \/ WeakPtr_Reset_Ptr(1)
        \/ WeakPtr_Reset_Call(1)
        \/ Collect(1)
        \/ Destroy_Lock(1)
        \/ Destroy(1)
        \/ UniquePtr_Reset_Test(1)
        \/ UniquePtr_Reset(1)
     /\ DX11Device_Resume(1)
     /\ UNCHANGED <<cvars, member, early>>
  \/ DX11Device_Members(1)

SpecDevice == Init /\ [][NextDevice]_vars

\* ------------------------------------------- handles held by client code
\* One thread of client code constructs GCUniquePtr variables from raw
\* pointers with an IGarbageCollector of its own, attaches GCWeakPtr variables
\* to them, and copies, assigns, compares and resets them.  A call is one step.
\* The client's collector deletes the object in Destroy and only takes note of
\* a Collect.

\* the call just made and what it returned, or, for a Reset, what it found
Called(op, res) == last' = [op |-> op, res |-> res]

\* GCUniquePtr::Reset line 422 and GCWeakPtr::Reset line 656: mpCounter = nullptr
AfterReset_Kept(m) == m
AfterReset(m) == NULL

\* if (mpCounter), lines 417 and 642: what a Reset found in the handle
Found(m) == IF m # NULL THEN "attached" ELSE "empty"

\* what a call returned
Result(b) == IF b THEN "true" ELSE "false"

\* the outcomes of GCUniquePtr::operator==(const GCUniquePtr&), line 389, for
\* the mpCounter a of *this and b of other; with both null the null mpCounter
\* is dereferenced
UniquePtr_Equal(a, b) ==
  IF a = b
  THEN IF a = NULL THEN {"true", "false", "fault"}
                   ELSE {Result(counter[a].ptr = counter[b].ptr)}
  ELSE {"false"}

\* GCWeakPtr::operator==(const GCWeakPtr&), lines 588-592
WeakPtr_Equal(a, b) ==
  IF a = b THEN "true"
  ELSE IF a = NULL THEN Result(counter[b].ptr = NULL)
  ELSE IF b = NULL THEN Result(counter[a].ptr = NULL)
  ELSE "false"

\* GCUniquePtr i: the default constructor, lines 326-328
GCUniquePtr_Default(i) ==
  /\ Running /\ uptr[i] = Unborn
  /\ uptr' = [uptr EXCEPT ![i] = NULL]
  /\ Called("GCUniquePtr()", "none")
  /\ UNCHANGED <<debug, heap, counter, objAt, failed, uaf, badDestroy, destroys,
                 collects, frees, wptr>>
  /\ UNCHANGED <<fvars, tptr, tmp>>

\* GCUniquePtr i(ptr, pCollector), lines 337-346; ptr is a new object or an
\* object another GCUniquePtr was constructed from
GCUniquePtr_Construct(i) ==
  /\ Running /\ uptr[i] = Unborn
  /\ FreshIds # {}
  /\ \E p \in Addr :
       /\ counter' = [counter EXCEPT ![NextId] =
                        [count |-> 0, ptr |-> p, pCollector |-> CLIENT]]
       /\ objAt' = IF objAt[p] = NULL THEN [objAt EXCEPT ![p] = NextId] ELSE objAt
       /\ Called("GCUniquePtr", "none")
  /\ heap' = [heap EXCEPT ![NextId] = "live"]
  /\ uptr' = [uptr EXCEPT ![i] = NextId]
  /\ UNCHANGED <<debug, failed, uaf, badDestroy, destroys, collects, frees, wptr>>
  /\ UNCHANGED <<fvars, tptr, tmp>>

\* GCUniquePtr i(j): the copy constructor, lines 330-335
GCUniquePtr_CopyConstruct(i, j) ==
  /\ Running /\ uptr[i] = Unborn /\ uptr[j] # Unborn
  /\ uptr' = Swap([uptr EXCEPT ![i] = NULL], i, j)
  /\ Called("GCUniquePtr(other)", "none")
  /\ UNCHANGED <<debug, heap, counter, objAt, failed, uaf, badDestroy, destroys,
                 collects, frees, wptr>>
  /\ UNCHANGED <<fvars, tptr, tmp>>

\* i = j: GCUniquePtr::operator=(const GCUniquePtr&), lines 358-363
GCUniquePtr_Assign(i, j) ==
  /\ Running /\ uptr[i] # Unborn /\ uptr[j] # Unborn
  /\ uptr' = Swap(uptr, i, j)
  /\ Called("GCUniquePtr=", "none")
  /\ UNCHANGED <<debug, heap, counter, objAt, failed, uaf, badDestroy, destroys,
                 collects, frees, wptr>>
  /\ UNCHANGED <<fvars, tptr, tmp>>

\* GCUniquePtr::Reset, lines 414-423, with the Destroy of the client's collector
GCUniquePtr_Reset(i) ==
  /\ Running /\ uptr[i] # Unborn
  /\ LET m == uptr[i] IN
       /\ IF m # NULL
          THEN LET p == counter[m].ptr IN
               /\ objAt' = IF p # NULL THEN [objAt EXCEPT ![p] = NULL] ELSE objAt
               /\ destroys' = IF p # NULL /\ objAt[p] # NULL
                              THEN [destroys EXCEPT ![objAt[p]] = Bump(@)]
                              ELSE destroys
               /\ badDestroy' = (badDestroy \/ p = NULL \/ objAt[p] = NULL)
               /\ IF counter[m].count = 0
                  THEN DeleteCounter(m)
                  ELSE /\ counter' = ClearPtr(m)
                       /\ UNCHANGED <<heap, frees, uaf>>
          ELSE UNCHANGED <<heap, counter, objAt, uaf, badDestroy, destroys, frees>>
       /\ uptr' = [uptr EXCEPT ![i] = AfterReset(m)]
       /\ Called("GCUniquePtr::Reset", Found(m))
  /\ UNCHANGED <<debug, failed, collects, wptr>>
  /\ UNCHANGED <<fvars, tptr, tmp>>

\* i == j: GCUniquePtr::operator==(const GCUniquePtr&), lines 386-390
GCUniquePtr_Equals(i, j) ==
  /\ Running /\ uptr[i] # Unborn /\ uptr[j] # Unborn
  /\ \E res \in UniquePtr_Equal(uptr[i], uptr[j]) : Called("GCUniquePtr==", res)
  /\ UNCHANGED <<debug, heap, counter, objAt, failed, uaf, badDestroy, destroys,
                 collects, frees, uptr, wptr>>
  /\ UNCHANGED <<fvars, tptr, tmp>>

\* GCWeakPtr k: the default constructor, lines 474-476
GCWeakPtr_Default(k) ==
  /\ Running /\ wptr[k] = Unborn
  /\ wptr' = [wptr EXCEPT ![k] = NULL]
  /\ Called("GCWeakPtr()", "none")
  /\ UNCHANGED <<debug, heap, counter, objAt, failed, uaf, badDestroy, destroys,
                 collects, frees, uptr>>
  /\ UNCHANGED <<fvars, tptr, tmp>>

\* GCWeakPtr k(u) for a GCUniquePtr u, lines 497-507, and GCWeakPtr k(l), lines
\* 478-483: the new variable k attaches to the mpCounter m of the source
Attach(k, m) ==
  /\ wptr[k] = Unborn /\ m # Unborn
  /\ wptr' = [wptr EXCEPT ![k] = m]
  /\ counter' = IF m # NULL THEN [counter EXCEPT ![m].count = CountAfterAttach(@)]
                            ELSE counter

GCWeakPtr_FromUnique(k, i) ==
  /\ Running
  /\ Attach(k, uptr[i])
  /\ Called("GCWeakPtr(GCUniquePtr)", "none")
  /\ UNCHANGED <<debug, heap, objAt, failed, uaf, badDestroy, destroys, collects,
                 frees, uptr>>
  /\ UNCHANGED <<fvars, tptr, tmp>>

GCWeakPtr_CopyConstruct(k, l) ==
  /\ Running
  /\ Attach(k, wptr[l])
  /\ Called("GCWeakPtr(other)", "none")
  /\ UNCHANGED <<debug, heap, objAt, failed, uaf, badDestroy, destroys, collects,
                 frees, uptr>>
  /\ UNCHANGED <<fvars, tptr, tmp>>

\* GCWeakPtr::Reset, lines 639-658, with the Collect of the client's collector
Release(k) ==
  LET m == wptr[k] IN
  /\ IF m # NULL
     THEN LET c == CountAfterDetach(counter[m].count) IN
          IF c = 0 /\ counter[m].ptr = NULL
          THEN /\ DeleteCounter(m)
               /\ UNCHANGED collects
          ELSE /\ counter' = [counter EXCEPT ![m].count = c]
               /\ collects' = IF c = 0 /\ counter[m].pCollector # NULL
                              THEN [collects EXCEPT ![m] = Bump(@)]
                              ELSE collects
               /\ UNCHANGED <<heap, frees, uaf>>
     ELSE UNCHANGED <<heap, counter, collects, frees, uaf>>
  /\ wptr' = [wptr EXCEPT ![k] = AfterReset(m)]

GCWeakPtr_Reset(k) ==
  /\ Running /\ wptr[k] # Unborn
  /\ Release(k)
  /\ Called("GCWeakPtr::Reset", Found(wptr[k]))
  /\ UNCHANGED <<debug, objAt, failed, badDestroy, destroys, uptr>>
  /\ UNCHANGED <<fvars, tptr, tmp>>

\* k = ptr: GCWeakPtr::operator=(T*), lines 562-568; the E_ASSERT_MSG aborts a
\* debug build
GCWeakPtr_AssignRaw(k, p) ==
  /\ Running /\ wptr[k] # Unborn
  /\ IF p = NULL
     THEN /\ Release(k)
          /\ UNCHANGED <<debug, failed>>
     ELSE /\ \E d \in Builds :
               /\ debug' = d
               /\ failed' = IF d = "debug" THEN "E_ASSERT_MSG" ELSE failed
          /\ UNCHANGED <<heap, counter, collects, frees, uaf, wptr>>
  /\ Called("GCWeakPtr=ptr", IF p = NULL THEN Found(wptr[k]) ELSE "none")
  /\ UNCHANGED <<objAt, badDestroy, destroys, uptr>>
  /\ UNCHANGED <<fvars, tptr, tmp>>

\* k == l: GCWeakPtr::operator==(const GCWeakPtr&), lines 584-593
GCWeakPtr_Equals(k, l) ==
  /\ Running /\ wptr[k] # Unborn /\ wptr[l] # Unborn
  /\ Called("GCWeakPtr==", WeakPtr_Equal(wptr[k], wptr[l]))
  /\ UNCHANGED <<debug, heap, counter, objAt, failed, uaf, badDestroy, destroys,
                 collects, frees, uptr, wptr>>
  /\ UNCHANGED <<fvars, tptr, tmp>>

\* k = l: GCWeakPtr::operator=(const GCWeakPtr&), line 534, up to the end of
\* Swap: the temporary GCWeakPtr(other) attaches to the mpCounter of l, lines
\* 478-483, and Swap, lines 664-670, leaves it with the mpCounter k had
GCWeakPtr_Assign(k, l) ==
  /\ Running /\ tmp = Unborn
  /\ wptr[k] # Unborn /\ wptr[l] # Unborn
  /\ LET n == wptr[l] IN
       /\ counter' = IF n # NULL
                     THEN [counter EXCEPT ![n].count = CountAfterAttach(@)]
                     ELSE counter
       /\ wptr' = [wptr EXCEPT ![k] = n]
       /\ tmp' = wptr[k]
  /\ Called("GCWeakPtr=", Found(wptr[k]))
  /\ UNCHANGED <<debug, heap, objAt, failed, uaf, badDestroy, destroys, collects,
                 frees, uptr, tptr>>
  /\ UNCHANGED fvars

\* line 534, the end of the full expression: the destructor of the temporary,
\* lines 521-525, runs Reset, lines 639-658, on the mpCounter k had
GCWeakPtr_AssignEnd ==
  /\ Running /\ tmp # Unborn
  /\ LET m == tmp IN
       IF m # NULL
       THEN LET c == CountAfterDetach(counter[m].count) IN
            IF c = 0 /\ counter[m].ptr = NULL
            THEN /\ DeleteCounter(m)
                 /\ UNCHANGED collects
            ELSE /\ counter' = [counter EXCEPT ![m].count = c]
                 /\ collects' = IF c = 0 /\ counter[m].pCollector # NULL
                                THEN [collects EXCEPT ![m] = Bump(@)]
                                ELSE collects
                 /\ UNCHANGED <<heap, frees, uaf>>
       ELSE UNCHANGED <<heap, counter, collects, frees, uaf>>
  /\ tmp' = Unborn
  /\ UNCHANGED <<debug, objAt, failed, badDestroy, destroys, uptr, wptr, last,
                 tptr>>
  /\ UNCHANGED fvars

\* GCWeakPtr::operator==(const T*), lines 595-599, and operator!=(const T*),
\* lines 607-611, for a handle with mpCounter = m
WeakPtr_EqualRaw(m, p) == IF m = NULL THEN p = NULL ELSE counter[m].ptr = p
WeakPtr_NotEqualRaw(m, p) == ~WeakPtr_EqualRaw(m, p)

\* GCWeakPtr::operator bool, lines 613-617: operator!=(nullptr)
WeakPtr_Bool_OfCounter(m) == m # NULL
WeakPtr_Bool(m) == WeakPtr_NotEqualRaw(m, NULL)

\* k == ptr
GCWeakPtr_EqualsRaw(k, p) ==
  /\ Running /\ wptr[k] # Unborn
  /\ Called("GCWeakPtr==ptr", Result(WeakPtr_EqualRaw(wptr[k], p)))
  /\ UNCHANGED <<debug, heap, counter, objAt, failed, uaf, badDestroy, destroys,
                 collects, frees, uptr, wptr>>
  /\ UNCHANGED <<fvars, tptr, tmp>>

\* k != l: GCWeakPtr::operator!=(const GCWeakPtr&), lines 601-605
GCWeakPtr_NotEquals(k, l) ==
  /\ Running /\ wptr[k] # Unborn /\ wptr[l] # Unborn
  /\ Called("GCWeakPtr!=", Result(WeakPtr_Equal(wptr[k], wptr[l]) # "true"))
  /\ UNCHANGED <<debug, heap, counter, objAt, failed, uaf, badDestroy, destroys,
                 collects, frees, uptr, wptr>>
  /\ UNCHANGED <<fvars, tptr, tmp>>

\* if (k): GCWeakPtr::operator bool
GCWeakPtr_Bool(k) ==
  /\ Running /\ wptr[k] # Unborn
  /\ Called("GCWeakPtr::bool", Result(WeakPtr_Bool(wptr[k])))
  /\ UNCHANGED <<debug, heap, counter, objAt, failed, uaf, badDestroy, destroys,
                 collects, frees, uptr, wptr>>
  /\ UNCHANGED <<fvars, tptr, tmp>>

\* k.GetCount(), lines 623-627, and k.GetPtr(), lines 629-633
GCWeakPtr_GetCount(k) ==
  /\ Running /\ wptr[k] # Unborn
  /\ Called("GCWeakPtr::GetCount", ToString(GetCount(wptr[k])))
  /\ UNCHANGED <<debug, heap, counter, objAt, failed, uaf, badDestroy, destroys,
                 collects, frees, uptr, wptr>>
  /\ UNCHANGED <<fvars, tptr, tmp>>

GCWeakPtr_GetPtr(k) ==
  /\ Running /\ wptr[k] # Unborn
  /\ Called("GCWeakPtr::GetPtr", ToString(GetPtr(wptr[k])))
  /\ UNCHANGED <<debug, heap, counter, objAt, failed, uaf, badDestroy, destroys,
                 collects, frees, uptr, wptr>>
  /\ UNCHANGED <<fvars, tptr, tmp>>

\* what *k and k-> yield, lines 570-582, for a handle with mpCounter = m.  The
\* E_ASSERT_MSG(mpCounter && mpCounter->ptr) aborts a debug build.  A release
\* build goes on to mpCounter->ptr: with mpCounter null that is a read through a
\* null pointer; with ptr null operator-> returns nullptr and operator* binds a
\* reference to no object
Deref(m, d) ==
  IF m # NULL /\ counter[m].ptr # NULL THEN {"object"}
  ELSE IF d = "debug" THEN {"E_ASSERT_MSG"}
  ELSE IF m = NULL THEN {"fault", "garbage"}
  ELSE {"nullptr", "fault", "garbage"}

\* *k or k->
GCWeakPtr_Deref(k) ==
  /\ Running /\ wptr[k] # Unborn
  /\ LET m == wptr[k] IN
       IF m # NULL /\ counter[m].ptr # NULL
       THEN /\ Called("GCWeakPtr->", "object")
            /\ UNCHANGED <<debug, failed>>
       ELSE \E d \in Builds :
              \E out \in Deref(m, d) :
                /\ debug' = d
                /\ failed' = IF out \in {"E_ASSERT_MSG", "fault"} THEN out ELSE failed
                /\ Called("GCWeakPtr->", out)
  /\ UNCHANGED <<heap, counter, objAt, uaf, badDestroy, destroys, collects, frees,
                 uptr, wptr>>
  /\ UNCHANGED <<fvars, tptr, tmp>>

\* GCThisPtr(this), lines 441-446: a GCCounter of its own for an object that no
\* collector owns; count and pCollector stay as GCCounter() made them
GCThisPtr_Construct ==
  /\ Running /\ tptr = Unborn
  /\ FreshIds # {}
  /\ \E p \in Addr :
       counter' = [counter EXCEPT ![NextId] = [GCCounter EXCEPT !.ptr = p]]
  /\ heap' = [heap EXCEPT ![NextId] = "live"]
  /\ tptr' = NextId
  /\ Called("GCThisPtr", "none")
  /\ UNCHANGED <<debug, objAt, failed, uaf, badDestroy, destroys, collects, frees,
                 uptr, wptr>>
  /\ UNCHANGED <<fvars, tmp>>

\* ~GCThisPtr, lines 448-452
GCThisPtr_Destroy ==
  /\ Running /\ tptr \in Rec
  /\ IF counter[tptr].count = 0
     THEN DeleteCounter(tptr)
     ELSE /\ counter' = ClearPtr(tptr)
          /\ UNCHANGED <<heap, frees, uaf>>
  /\ tptr' = NULL
  /\ Called("~GCThisPtr", Result(counter[tptr].count = 0))
  /\ UNCHANGED <<debug, objAt, failed, badDestroy, destroys, collects, uptr, wptr>>
  /\ UNCHANGED <<fvars, tmp>>

\* GCWeakPtr k(t) for the GCThisPtr t, lines 509-519
GCWeakPtr_FromThis(k) ==
  /\ Running /\ tptr \in Rec
  /\ Attach(k, tptr)
  /\ Called("GCWeakPtr(GCThisPtr)", "none")
  /\ UNCHANGED <<debug, heap, objAt, failed, uaf, badDestroy, destroys, collects,
                 frees, uptr>>
  /\ UNCHANGED <<fvars, tptr, tmp>>

NextHandles ==
  \/ \E i \in Own : \/ GCUniquePtr_Default(i) \/ GCUniquePtr_Construct(i)
                   \/ GCUniquePtr_Reset(i)
  \/ \E i, j \in Own : \/ GCUniquePtr_CopyConstruct(i, j)
                       \/ GCUniquePtr_Assign(i, j)
                       \/ GCUniquePtr_Equals(i, j)
  \/ \E k \in Shared, i \in Own : GCWeakPtr_FromUnique(k, i)
  \/ \E k, l \in Shared : GCWeakPtr_CopyConstruct(k, l) \/ GCWeakPtr_Equals(k, l)
  \/ \E k \in Shared : GCWeakPtr_Default(k) \/ GCWeakPtr_Reset(k)
  \/ \E k \in Shared, p \in Addr \cup {NULL} : GCWeakPtr_AssignRaw(k, p)

SpecHandles == Init /\ [][NextHandles]_vars

\* client code that owns objects through GCUniquePtr variables and observes
\* them through GCWeakPtr variables it constructs, assigns, reads and resets.
\* It runs one call at a time: the destructor of the temporary of an assignment
\* ends the assignment before the next call is made.
NextShared ==
  \/ /\ tmp = Unborn
     /\ \/ \E i \in Own : GCUniquePtr_Construct(i) \/ GCUniquePtr_Reset(i)
        \/ \E k \in Shared, i \in Own : GCWeakPtr_FromUnique(k, i)
        \/ \E k, l \in Shared : \/ GCWeakPtr_CopyConstruct(k, l)
                                \/ GCWeakPtr_Equals(k, l)
                                \/ GCWeakPtr_NotEquals(k, l)
                                \/ GCWeakPtr_Assign(k, l)
        \/ \E k \in Shared : \/ GCWeakPtr_Default(k) \/ GCWeakPtr_Reset(k)
                             \/ GCWeakPtr_Bool(k) \/ GCWeakPtr_Deref(k)
                             \/ GCWeakPtr_GetCount(k) \/ GCWeakPtr_GetPtr(k)
        \/ \E k \in Shared, p \in Addr \cup {NULL} : GCWeakPtr_EqualsRaw(k, p)
  \/ GCWeakPtr_AssignEnd

SpecShared == Init /\ [][NextShared]_vars

\* an object that hands out GCWeakPtr to itself through a GCThisPtr member,
\* next to an object owned by a GCUniquePtr
NextThis ==
  \/ GCThisPtr_Construct
  \/ GCThisPtr_Destroy
  \/ GCUniquePtr_Construct(1)
  \/ GCUniquePtr_Reset(1)
  \/ \E k \in Shared : \/ GCWeakPtr_Default(k) \/ GCWeakPtr_FromThis(k)
                       \/ GCWeakPtr_FromUnique(k, 1) \/ GCWeakPtr_Reset(k)
  \/ \E k, l \in Shared : GCWeakPtr_CopyConstruct(k, l)

SpecThis == Init /\ [][NextThis]_vars

\* ------------------------------------------------------------------ claims
\* Create() has allocated an object for id r (the object lives or was destroyed)
HadObject(r) == destroys[r] > 0 \/ \E a \in Addr : objAt[a] = r

\* the live list holds the GCUniquePtr of object r
InLiveList(r) == \E i \in 1..Len(mLiveList) : mLiveList[i] = r

\* C1: single thread round trip.  A GCWeakPtr::Reset of the only handle to a
\* created object that CleanUp has not destroyed returns after exactly one
\* Collect for the object and exactly one Destroy of it; the live list loses
\* exactly one entry, the object's, in the Collect step of that Reset and is
\* unchanged by its other steps; and no call ends in an assertion.
C1_RoundTrip ==
  /\ [](failed = "none")
  /\ [][\A r \in Rec :
          (/\ Resetting(1) /\ local[1].r = r
           /\ weak[1][r] = 1 /\ r \notin cleaned)
          => /\ pc'[1] = "idle" => collects'[r] = 1 /\ destroys'[r] = 1
             /\ IF pc[1] = "collect"
                THEN /\ Len(mLiveList') = Len(mLiveList) - 1
                     /\ InLiveList(r) /\ ~InLiveList(r)'
                ELSE mLiveList' = mLiveList]_vars

C1_Witness ==
  \E r \in Rec : /\ pc[1] = "idle" /\ weak[1][r] = 0 /\ r \notin cleaned
                 /\ collects[r] = 1 /\ destroys[r] = 1 /\ heap[r] = "freed"
                 /\ mLiveList # <<>>


\* no thread is inside a call
Quiescent == \A t \in Threads : pc[t] = "idle"

\* no CleanUp has torn an entry down or is running
NoCleanUp == cleaned = {} /\ ~mCleaningUp

\* number of handles of all threads with mpCounter = r, those inside Reset excluded
AttachedAll(r) == Sum([t \in Threads |-> Attached(t, r)], Threads)

\* C2: with threads only attaching and detaching handles, Collect is invoked at
\* most once for an object, only by a detach that leaves no handle attached, and
\* once every handle is detached it has been invoked and the entry has left the
\* live list.
C2_CollectExactlyOnce ==
  \A r \in Rec :
    NoCleanUp =>
      /\ collects[r] <= 1
      /\ (collects[r] = 1 => AttachedAll(r) = 0)
      /\ (Quiescent /\ HadObject(r) /\ AttachedAll(r) = 0
            => collects[r] = 1 /\ ~InLiveList(r))

\* C3 as claimed: with no call in progress, an object is in the live list iff
\* the reference count of its GCCounter is greater than zero.
C3_LiveIffCounted ==
  Quiescent =>
    \A r \in Rec : heap[r] = "live" => (InLiveList(r) <=> counter[r].count > 0)

\* C3 amended: with no call in progress, an object is in the live list iff it
\* has not been destroyed and its reference count is greater than zero, and
\* GetLiveCount() is the number of such objects.
C3_LiveIffCountedAndAlive ==
  Quiescent =>
    /\ \A r \in Rec :
         InLiveList(r) <=> (/\ heap[r] = "live"
                            /\ counter[r].ptr # NULL
                            /\ counter[r].count > 0)
    /\ Len(mLiveList) =
         Cardinality({r \in Rec : /\ heap[r] = "live" /\ counter[r].ptr # NULL
                                  /\ counter[r].count > 0})


C3_Witness ==
  /\ Quiescent
  /\ \E r \in Rec : InLiveList(r) /\ counter[r].count > 0
  /\ \E r \in Rec : /\ ~InLiveList(r) /\ heap[r] = "live"
                    /\ counter[r].ptr = NULL /\ counter[r].count > 0

\* C4: when CleanUp returns and no other thread is inside a handle Reset, the
\* live list is empty, every registered object has been destroyed exactly once,
\* and every handle still held is attached to a GCCounter that has not been
\* deleted and whose ptr is null.
C4_CleanUpLeavesDead ==
  [][\A t \in Threads :
       (/\ mLiveListMutex = t /\ mCleaningUp /\ ~mCleaningUp'
        /\ \A s \in Threads : s # t => ~Resetting(s))
       => (/\ mLiveList' = <<>>
           /\ \A r \in Rec : heap[r] # "unused" => destroys'[r] = 1
           /\ \A s \in Threads, r \in Rec :
                weak[s][r] > 0 => heap'[r] = "live" /\ counter'[r].ptr = NULL)]_vars

C4_Witness ==
  /\ Quiescent /\ mLiveList = <<>>
  /\ \E r \in cleaned : /\ weak[1][r] > 0 /\ heap[r] = "live"
                        /\ counter[r].ptr = NULL /\ destroys[r] = 1
  /\ \E r \in cleaned : weak[1][r] = 0 /\ weak[2][r] = 0


\* C5: under fair scheduling every call eventually returns.
C5_EveryCallReturns ==
  \A t \in Threads : (pc[t] # "idle") ~> (pc[t] = "idle")



\* C6: while one thread drops handles and the other calls CleanUp, no Collect
\* ends in the not-found assertion and no deleted GCCounter is read or written.
C6_DropDuringCleanUpIsSafe ==
  failed # "E_ASSERT_ALWAYS" /\ ~uaf

\* C7: a GCUniquePtr::Reset that finds k >= 1 handles attached leaves the
\* GCCounter allocated with GetCount() = k and GetPtr() = nullptr; and the Reset
\* of the last handle to a GCCounter whose owner CleanUp has reset deletes the
\* GCCounter without a Collect call.
C7_WeakObservationAfterRelease ==
  [][\A t \in Threads :
       /\ \A e \in Rec :
            (/\ pc[t] = "ptr_act" /\ pc'[t] # "ptr_act"
             /\ local[t].e = e /\ local[t].ctx = "cleanup"
             /\ AttachedAll(e) >= 1)
            => (/\ heap'[e] = "live"
                /\ GetCount(e)' = AttachedAll(e)
                /\ GetPtr(e)' = NULL)
       /\ \A r \in Rec :
            (/\ Resetting(t) /\ local[t].r = r /\ pc'[t] = "idle"
             /\ r \in cleaned /\ heap[r] = "live" /\ counter[r].ptr = NULL
             /\ counter[r].count = 0)
            => (/\ heap'[r] = "freed" /\ frees'[r] = 1
                /\ collects'[r] = collects[r])]_vars

C7_Witness ==
  \E r \in cleaned : /\ heap[r] = "freed" /\ frees[r] = 1 /\ collects[r] = 0
                     /\ destroys[r] = 1 /\ Quiescent

\* C8: the count of a GCCounter is the number of handles attached to it.
C8_CountIsAttached ==
  \A r \in Rec : heap[r] = "live" => GetCount(r) = AttachedAll(r)

C8_Witness ==
  \E r \in Rec : /\ Quiescent /\ weak[1][r] = 2 /\ GetCount(r) = 2
                 /\ GetPtr(r) # NULL

\* C9: in every state the ptr of a GCCounter is non-null iff the object has not
\* been destroyed, so a handle that passes the assertion of operator* refers to
\* a living object; and pCollector stays the factory.
C9_PtrNonNullIffAlive ==
  /\ \A r \in Rec :
       heap[r] = "live" =>
         /\ (counter[r].ptr # NULL <=> \E a \in Addr : objAt[a] = r)
         /\ counter[r].ptr # NULL => objAt[counter[r].ptr] = r
         /\ counter[r].pCollector = THIS

\* C10: every GCCounter is deleted at most once, never while a handle is
\* attached or still going to access it, and it has been deleted once its owner
\* and every handle have released it.
C10_CounterFreedExactlyOnce ==
  /\ ~uaf
  /\ \A r \in Rec :
       /\ frees[r] <= 1
       /\ heap[r] = "freed" => AttachedAll(r) = 0
       /\ (/\ Quiescent /\ heap[r] # "unused" /\ ~InLiveList(r)
           /\ AttachedAll(r) = 0)
          => heap[r] = "freed"

\* C11: a Reset leaves the handle empty, and the Reset of an empty GCUniquePtr
\* or GCWeakPtr calls neither Collect nor Destroy, deletes no GCCounter and
\* changes no count, pointer or handle.
C11_ResetOfEmptyIsNoOp ==
  [][/\ \A i \in Own :
          GCUniquePtr_Reset(i) =>
            /\ uptr'[i] = NULL
            /\ uptr[i] = NULL =>
                 UNCHANGED <<heap, counter, objAt, destroys, collects, frees,
                             badDestroy, uptr, wptr, failed>>
     /\ \A k \in Shared :
          GCWeakPtr_Reset(k) =>
            /\ wptr'[k] = NULL
            /\ wptr[k] = NULL =>
                 UNCHANGED <<heap, counter, objAt, destroys, collects, frees,
                             badDestroy, uptr, wptr, failed>>]_vars

C11_Witness ==
  /\ last.op \in {"GCUniquePtr::Reset", "GCWeakPtr::Reset"} /\ last.res = "empty"
  /\ \E r \in Rec : heap[r] = "freed"
  /\ \A i \in Own : uptr[i] = NULL
  /\ \A k \in Shared : wptr[k] = NULL

\* C12: no two GCUniquePtr variables hold the same GCCounter, and the copy
\* constructor leaves the source empty and the new variable with the GCCounter
\* the source held.
C12_OneOwnerPerRecord ==
  /\ [](\A i, j \in Own : i # j /\ uptr[i] \in Rec => uptr[i] # uptr[j])
  /\ [][\A i, j \in Own :
          GCUniquePtr_CopyConstruct(i, j) => uptr'[j] = NULL /\ uptr'[i] = uptr[j]]_vars

C12_Witness ==
  /\ last.op = "GCUniquePtr(other)"
  /\ \E i, j \in Own : uptr[i] \in Rec /\ uptr[j] = NULL

\* C13: after a = b on two GCUniquePtr variables, b is empty and a holds the
\* GCCounter b held, whatever a held before.
C13_AssignInvalidatesSource ==
  [][\A i, j \in Own :
       i # j /\ GCUniquePtr_Assign(i, j) => uptr'[j] = NULL /\ uptr'[i] = uptr[j]]_vars

\* C14: GCWeakPtr::operator== returns true iff both handles hold the same
\* GCCounter or GetPtr() is null for both.
C14_SharedEquality ==
  [][\A k, l \in Shared :
       GCWeakPtr_Equals(k, l) =>
         last'.res = Result(\/ wptr[k] = wptr[l]
                            \/ GetPtr(wptr[k]) = NULL /\ GetPtr(wptr[l]) = NULL)]_vars

\* C15: GCUniquePtr::operator== returns, without failing, whether both handles
\* hold a GCCounter and the ptr of the two are the same; for two empty handles
\* it returns false.
C15_OwningEquality ==
  [][\A i, j \in Own :
       GCUniquePtr_Equals(i, j) =>
         last'.res = Result(/\ uptr[i] # NULL /\ uptr[j] # NULL
                            /\ counter[uptr[i]].ptr = counter[uptr[j]].ptr)]_vars

\* Create() found the allocator out of memory when it made GCCounter r
AllocFailed(r) == heap[r] # "unused" /\ ~HadObject(r)

\* C16: a Create() whose allocation failed adds no entry to the live list, no
\* Collect is called for the handle it returned, and no GCCounter that an entry
\* of the live list holds is deleted.
C16_AllocFailureAddsNothing ==
  /\ \A r \in Rec : AllocFailed(r) => ~InLiveList(r) /\ collects[r] = 0
  /\ \A r \in Rec : InLiveList(r) => heap[r] = "live"

\* thread t is inside Collect for object r / inside Destroy for the object of
\* entry r
InCollect(t, r) ==
  /\ local[t].r = r
  /\ \/ pc[t] = "collect"
     \/ pc[t] \in {"ptr_destroy", "ptr_delete", "ptr_test", "ptr_act"}
        /\ local[t].ctx = "collect"
InDestroy(t, r) == pc[t] \in {"ptr_destroy", "ptr_delete"} /\ local[t].e = r

\* C17: no thread is inside Collect for an object while another thread is
\* inside Destroy for it; a Destroy that CleanUp does not make is made inside the
\* Collect for the same object; and no Collect is called for an object whose
\* Destroy has been called.
C17_CollectBeforeDestroy ==
  /\ [](\A t, s \in Threads, r \in Rec :
          t # s => ~(InCollect(t, r) /\ InDestroy(s, r)))
  /\ [](\A t \in Threads, r \in Rec :
          InDestroy(t, r) /\ local[t].ctx # "cleanup" => InCollect(t, r))
  /\ [][\A t \in Threads, r \in Rec :
          (pc[t] = "reset_call" /\ pc'[t] = "collect" /\ local[t].r = r)
          => /\ destroys[r] = 0
             /\ \A s \in Threads : ~InDestroy(s, r)]_vars

C20_AssignRawPointer ==
  [][\A k \in Shared, p \in Addr \cup {NULL} :
       GCWeakPtr_AssignRaw(k, p) =>
         IF p = NULL
         THEN /\ wptr'[k] = NULL
              /\ \A r \in Rec :
                   wptr[k] = r =>
                     LET last1 == counter[r].count = 1 IN
                     /\ heap'[r] = "freed" <=> (last1 /\ counter[r].ptr = NULL)
                     /\ heap'[r] = "live" => counter'[r].count = counter[r].count - 1
                     /\ collects'[r] = IF last1 /\ counter[r].ptr # NULL
                                       THEN Bump(collects[r]) ELSE collects[r]
                     /\ destroys' = destroys
              /\ wptr[k] = NULL => UNCHANGED <<heap, counter, collects, frees>>
         ELSE /\ UNCHANGED <<heap, counter, objAt, destroys, collects, frees,
                             uptr, wptr>>
              /\ failed' \in {"none", "E_ASSERT_MSG"}]_vars

C20_Witness ==
  /\ last.op = "GCWeakPtr=ptr" /\ last.res = "attached"
  /\ \E r \in Rec : collects[r] = 1 /\ heap[r] = "live" /\ counter[r].count = 0

\* what GCWeakPtr::Reset does to the GCCounter m of the handle: the count is
\* one less; with the count at zero the GCCounter is deleted if its ptr is null
\* and otherwise, a collector being set, Collect is called once; no other
\* GCCounter changes and Destroy is not called
ResetLeaves(m) ==
  LET c == counter[m].count - 1 IN
  /\ heap'[m] = "freed" <=> (c = 0 /\ counter[m].ptr = NULL)
  /\ heap'[m] = "live" => counter'[m] = [counter[m] EXCEPT !.count = c]
  /\ frees'[m] = IF c = 0 /\ counter[m].ptr = NULL THEN frees[m] + 1 ELSE frees[m]
  /\ collects'[m] = IF c = 0 /\ counter[m].ptr # NULL /\ counter[m].pCollector # NULL
                    THEN collects[m] + 1 ELSE collects[m]
  /\ \A r \in Rec \ {m} : /\ heap'[r] = heap[r] /\ counter'[r] = counter[r]
                          /\ collects'[r] = collects[r] /\ frees'[r] = frees[r]
  /\ UNCHANGED <<objAt, destroys, badDestroy>>

\* C21: k = l on two GCWeakPtr attaches k to the GCCounter of l with its count
\* one more, and then releases the GCCounter k held as Reset does; between the
\* two, a GCCounter that a handle is still attached to has a count of at least
\* two, so that an assignment of a handle to itself, or from a handle of the same
\* GCCounter, ends with the count it started with, calls no Collect and deletes
\* no GCCounter.
C21_AssignShared ==
  /\ [][\A k, l \in Shared :
          GCWeakPtr_Assign(k, l) =>
            /\ wptr'[k] = wptr[l] /\ tmp' = wptr[k]
            /\ \A n \in Rec :
                 counter'[n] = IF wptr[l] = n
                               THEN [counter[n] EXCEPT !.count = @ + 1]
                               ELSE counter[n]
            /\ UNCHANGED <<heap, collects, frees, objAt, destroys>>]_vars
  /\ [][GCWeakPtr_AssignEnd =>
          /\ tmp' = Unborn /\ wptr' = wptr
          /\ \A m \in Rec : tmp = m => ResetLeaves(m)
          /\ tmp = NULL => UNCHANGED <<heap, counter, collects, frees>>]_vars
  /\ [](\A m \in Rec :
          tmp = m /\ (\E k \in Shared : wptr[k] = m) => counter[m].count >= 2)
  /\ [][\A m \in Rec :
          (GCWeakPtr_AssignEnd /\ tmp = m /\ \E k \in Shared : wptr[k] = m)
          => /\ counter'[m].count = counter[m].count - 1
             /\ counter'[m].count >= 1
             /\ UNCHANGED <<heap, collects, frees>>]_vars

C21_Witness ==
  /\ tmp \in Rec /\ wptr[1] = tmp /\ wptr[2] = Unborn
  /\ counter[tmp].count = 2 /\ counter[tmp].ptr # NULL

\* C22: operator bool returns true iff the handle holds a GCCounter whose ptr is
\* not null; operator* and operator-> yield the object in exactly that case, and
\* otherwise, for an empty and for an expired handle alike, never yield an object
\* and fail the assertion of a debug build.
C22_BoolIffDereferenceable ==
  [][\A k \in Shared :
       LET holds == wptr[k] \in Rec /\ GetPtr(wptr[k]) # NULL IN
       /\ GCWeakPtr_Bool(k) => last'.res = Result(holds)
       /\ GCWeakPtr_Deref(k) =>
            IF holds
            THEN last'.res = "object" /\ failed' = "none"
            ELSE /\ last'.res # "object"
                 /\ debug' = "debug" => failed' = "E_ASSERT_MSG"]_vars

C22_Witness ==
  /\ last.op = "GCWeakPtr->" /\ failed = "E_ASSERT_MSG"
  /\ \A k \in Shared : wptr[k] \in Rec /\ GetPtr(wptr[k]) = NULL

\* no entry of the live list holds object p
NotOwned(p) ==
  \A i \in 1..Len(mLiveList) :
    heap[mLiveList[i]] = "live" /\ counter[mLiveList[i]].ptr # p

\* C23: a Collect that runs while no CleanUp is clearing the list, for an object
\* that no entry of the live list holds, ends in E_ASSERT_ALWAYS and leaves the
\* live list as it was; and with one thread calling Create, CleanUp and the
\* copies and Resets of handles, every Collect that a Reset calls finds the entry
\* of its object.
C23_CollectNotFound ==
  /\ [][\A t \in Threads :
          (Collect(t) /\ ~mCleaningUp /\ NotOwned(local[t].p))
          => failed' = "E_ASSERT_ALWAYS" /\ mLiveList' = mLiveList]_vars
  /\ [](\A t \in Threads :
          (pc[t] = "collect" /\ local[t].r # NULL /\ ~mCleaningUp)
          => ~NotOwned(local[t].p))

C23_Witness ==
  /\ failed = "E_ASSERT_ALWAYS" /\ local[1].r = NULL /\ local[1].p # NULL
  /\ mLiveList # <<>>
  /\ \E r \in Rec : destroys[r] = 1 /\ collects[r] = 1

\* C24: the destructor of a factory whose live list is not empty fails its
\* assertion (in a debug build); the destructor of a factory each of whose
\* objects CleanUp has destroyed or has no handle left finds the live list empty
\* and does not fail.
C24_FactoryDestructor ==
  [][\A t \in Threads :
       GCConcreteFactory_Destructor(t) =>
         /\ (mLiveList # <<>> /\ debug' = "debug") => failed' = "E_ASSERT_MSG"
         /\ (\A r \in Rec : heap[r] # "unused"
                              => (r \in cleaned \/ AttachedAll(r) = 0))
              => mLiveList = <<>> /\ failed' = "none"]_vars

C24_Witness ==
  /\ pc[1] = "gone" /\ failed = "none"
  /\ \E r \in cleaned : weak[1][r] > 0
  /\ \E r \in Rec : r \notin cleaned /\ collects[r] = 1 /\ destroys[r] = 1

\* C25: the destructor of a GCThisPtr deletes its GCCounter if no GCWeakPtr
\* holds it and otherwise only sets its ptr to null; neither the destructor nor
\* the Reset of a GCWeakPtr that holds such a GCCounter calls Collect or Destroy;
\* and while the GCThisPtr lives its GCCounter is not deleted, whatever its count
\* falls to.
C25_ScopedHandle ==
  /\ [](tptr \in Rec => heap[tptr] = "live" /\ counter[tptr].ptr # NULL)
  /\ [][GCThisPtr_Destroy =>
          /\ IF \E k \in Shared : wptr[k] = tptr
             THEN /\ heap'[tptr] = "live"
                  /\ counter'[tptr] = [counter[tptr] EXCEPT !.ptr = NULL]
             ELSE heap'[tptr] = "freed" /\ frees'[tptr] = 1
          /\ UNCHANGED <<collects, destroys, objAt, badDestroy>>]_vars
  /\ [][\A k \in Shared, m \in Rec :
          (GCWeakPtr_Reset(k) /\ wptr[k] = m /\ counter[m].pCollector = NULL)
          => /\ UNCHANGED <<collects, destroys, objAt, badDestroy>>
             /\ heap'[m] = "freed" <=> (/\ tptr # m
                                        /\ \A l \in Shared : wptr'[l] # m)]_vars

C25_Witness ==
  /\ tptr \in Rec /\ counter[tptr].count = 0 /\ uptr[1] = Unborn
  /\ last.op = "GCWeakPtr::Reset" /\ last.res = "attached"
  /\ \A k \in Shared : wptr[k] = NULL

\* C26: GetCount, GetPtr, ==, != and operator bool of a GCWeakPtr change no
\* handle, GCCounter, object or live list and call neither Collect nor Destroy;
\* on an empty handle GetCount returns 0 and GetPtr returns nullptr.
C26_ObserversChangeNothing ==
  [][\A k \in Shared :
       /\ (\/ GCWeakPtr_GetCount(k) \/ GCWeakPtr_GetPtr(k) \/ GCWeakPtr_Bool(k)
           \/ \E l \in Shared : GCWeakPtr_Equals(k, l) \/ GCWeakPtr_NotEquals(k, l)
           \/ \E p \in Addr \cup {NULL} : GCWeakPtr_EqualsRaw(k, p))
          => UNCHANGED <<uptr, wptr, tptr, tmp, heap, counter, objAt, mLiveList,
                         collects, destroys, badDestroy, frees, failed>>
       /\ GCWeakPtr_GetCount(k) /\ wptr[k] = NULL => last'.res = ToString(0)
       /\ GCWeakPtr_GetPtr(k) /\ wptr[k] = NULL => last'.res = ToString(NULL)]_vars

C26_Witness ==
  /\ last.op = "GCWeakPtr::GetCount" /\ last.res = "0"
  /\ \E k, l \in Shared : wptr[k] = NULL /\ wptr[l] \in Rec

\* C27: when CleanUp of the generic factory has cleared the live list, the
\* live count that mFactory reports is zero, and the assertion of the debug
\* build holds.
C27_CleanUpLeavesNoLiveObject ==
  [][\A t \in Threads :
       GCGenericFactory_CleanUp_Check(t)
       => Factory_GetLiveCount = 0 /\ failed' = "none"]_vars

\* C28: whatever the interleaving of Create, handle copies and handle drops,
\* the entry that a Collect removes from the live list, and the object that the
\* Destroy it triggers deletes, have no GCWeakPtr attached (as long as no
\* CleanUp has run and no deleted GCCounter has been read).
C28_CollectSparesAttached ==
  \A t \in Threads :
    (/\ pc[t] \in {"ptr_destroy", "ptr_delete"} /\ local[t].ctx = "collect"
     /\ NoCleanUp /\ ~uaf)
    => /\ AttachedAll(local[t].e) = 0
       /\ pc[t] = "ptr_delete" /\ local[t].p # NULL /\ objAt[local[t].p] # NULL
            => AttachedAll(objAt[local[t].p]) = 0

\* C29: Reset of a GCUniquePtr that holds a GCCounter calls Destroy for its
\* object once, whatever the count; then the GCCounter is deleted if its count is
\* zero and otherwise only its ptr is set to null; and the handle is left empty.
C29_OwningReset ==
  [][\A i \in Own, m \in Rec :
       GCUniquePtr_Reset(i) /\ uptr[i] = m =>
         LET p == counter[m].ptr IN
         /\ p # NULL
         /\ \A a \in Addr : objAt'[a] = IF a = p THEN NULL ELSE objAt[a]
         /\ \A o \in Rec : destroys'[o] = IF objAt[p] = o THEN destroys[o] + 1
                                          ELSE destroys[o]
         /\ badDestroy' = (badDestroy \/ objAt[p] = NULL)
         /\ collects' = collects
         /\ IF counter[m].count = 0
            THEN heap'[m] = "freed" /\ frees'[m] = frees[m] + 1
            ELSE /\ heap'[m] = "live" /\ frees'[m] = frees[m]
                 /\ counter'[m] = [counter[m] EXCEPT !.ptr = NULL]
         /\ \A r \in Rec \ {m} : heap'[r] = heap[r] /\ counter'[r] = counter[r]
         /\ uptr'[i] = NULL]_vars

C29_Witness ==
  /\ last.op = "GCUniquePtr::Reset" /\ last.res = "attached"
  /\ \E r \in Rec : /\ heap[r] = "live" /\ counter[r].ptr = NULL
                    /\ counter[r].count = 2 /\ destroys[r] = 1
  /\ \E r \in Rec : heap[r] = "freed" /\ collects[r] = 0

\* C30: Reset of a GCWeakPtr that holds a GCCounter leaves the handle empty and
\* the count one less; it calls Collect only if that count is zero, the ptr is
\* not null and a collector is set, deletes the GCCounter only if that count is
\* zero and the ptr is null, and does neither while another GCWeakPtr holds the
\* GCCounter.
C30_SharedReset ==
  [][\A k \in Shared, m \in Rec :
       GCWeakPtr_Reset(k) /\ wptr[k] = m =>
         /\ wptr'[k] = NULL
         /\ ResetLeaves(m)
         /\ (\E l \in Shared : l # k /\ wptr[l] = m)
              => /\ heap'[m] = "live"
                 /\ collects' = collects /\ frees' = frees]_vars

C30_Witness ==
  /\ last.op = "GCWeakPtr::Reset" /\ last.res = "attached"
  /\ \E r \in Rec : /\ collects[r] = 1 /\ heap[r] = "live"
                    /\ counter[r].count = 0
  /\ \E r \in Rec : heap[r] = "freed" /\ destroys[r] = 1 /\ collects[r] = 0

\* C31: a Collect(object) outside CleanUp removes from the live list the one
\* entry whose ptr is object, and there is exactly one such entry; every other
\* entry stays in the list, with its GCCounter, its ptr and its object
\* untouched; and the Destroy that the removed entry's Reset makes is for
\* object and deletes no other object.
C31_CollectRemovesOneEntry ==
  [][\A t \in Threads :
       /\ (pc[t] = "collect" /\ pc'[t] = "ptr_destroy" /\ ~uaf') =>
            \E i \in 1..Len(mLiveList) :
              /\ counter[mLiveList[i]].ptr = local[t].p
              /\ \A j \in 1..Len(mLiveList) :
                   j # i => counter[mLiveList[j]].ptr # local[t].p
              /\ local'[t].e = mLiveList[i]
              /\ Len(mLiveList') = Len(mLiveList) - 1
              /\ \A j \in 1..Len(mLiveList) :
                   j # i => \E k \in 1..Len(mLiveList') : mLiveList'[k] = mLiveList[j]
              /\ counter' = counter /\ heap' = heap /\ objAt' = objAt
              /\ destroys' = destroys
       /\ (/\ pc[t] = "ptr_destroy" /\ local[t].ctx = "collect"
           /\ pc'[t] = "ptr_delete" /\ ~uaf')
          => local'[t].p = local[t].p
       /\ (/\ pc[t] = "ptr_delete" /\ local[t].ctx = "collect"
           /\ pc'[t] = "ptr_test")
          => /\ \A x \in Rec : destroys'[x] # destroys[x] => objAt[local[t].p] = x
             /\ \A a \in Addr : a # local[t].p => objAt'[a] = objAt[a]
             /\ mLiveList' = mLiveList]_vars

C31_Witness ==
  \E t \in Threads :
    /\ pc[t] = "ptr_test" /\ local[t].ctx = "collect" /\ local[t].e = 1
    /\ mLiveList = <<2>> /\ destroys[1] = 1 /\ destroys[2] = 0
    /\ heap[2] = "live" /\ counter[2].ptr # NULL /\ objAt[counter[2].ptr] = 2

\* C32: a Collect that runs while mCleaningUp is set, called by the Reset of a
\* handle that the destructor of an object drops inside the Clear() of
\* CleanUp, returns without removing an entry and without a Destroy of its
\* own: in its step only the object whose destructor is running is deleted.
\* The object it names is destroyed at most once, and exactly once when
\* CleanUp returns.
C32_CollectDuringCleanUp ==
  /\ [](\A m \in early : destroys[m] <= 1)
  /\ [][/\ \A m \in Rec :
            (/\ collects'[m] # collects[m] /\ pc[1] = "ptr_delete"
             /\ mCleaningUp /\ pc'[1] # "blocked")
            => /\ m \in early'
               /\ mLiveList' = mLiveList
               /\ failed' = "none"
               /\ \A y \in Rec :
                    destroys'[y] # destroys[y] => objAt[local[1].p] = y
        /\ (mCleaningUp /\ ~mCleaningUp')
           => \A m \in early' : destroys'[m] = 1]_vars

C32_Witness ==
  /\ pc[1] = "idle" /\ ~mCleaningUp /\ mLiveListMutex = NULL
  /\ early = {2} /\ collects[2] = 1 /\ destroys[2] = 1 /\ destroys[1] = 1
  /\ heap[2] = "freed" /\ mLiveList = <<>>

\* C33: the step that ends Create() of the concrete factory, and the one that
\* ends Create(typeID) of the generic factory, destroys no object: the
\* temporary and the local GCUniquePtr are empty when their destructors run.
\* The live list gains one entry, at the back, that owns the new object; the
\* GCCounter of that entry has count 1 and the caller's handle is attached to
\* it.
C33_CreateKeepsNewObject ==
  [][\A t \in Threads :
       (Create_Register(t) \/ GCGenericFactory_Create_Register(t)) =>
         LET r == local[t].r
             p == local[t].p
         IN  /\ Dropped(Create_Handles(r)) = {}
             /\ Dropped(GCGenericFactory_Create_Handles(r)) = {}
             /\ destroys' = destroys /\ objAt' = objAt /\ frees' = frees
             /\ objAt[p] = r
             /\ mLiveList' = Append(mLiveList, r)
             /\ heap'[r] = "live"
             /\ counter'[r] = [count |-> 1, ptr |-> p, pCollector |-> THIS]
             /\ weak'[t][r] = 1 /\ weak[t][r] = 0
             /\ \A q \in Rec : q # r => counter'[q] = counter[q]]_vars

C33_Witness ==
  /\ Quiescent /\ Len(mLiveList) = 2 /\ mLiveList[2] = 2
  /\ heap[2] = "live" /\ counter[2].count = 1 /\ counter[2].ptr # NULL
  /\ objAt[counter[2].ptr] = 2 /\ destroys[2] = 0
  /\ weak[1][2] + weak[2][2] = 1 /\ collects[1] = 0

\* C34: for the generic factory, whenever no thread is inside a call,
\* GetLiveCount(), which is mFactory.GetLiveCount(), is the number of entries
\* of the live list.
C34_LiveCountIsListLength ==
  Quiescent => Factory_GetLiveCount = Len(mLiveList)

C34_Witness ==
  /\ Quiescent /\ Factory_GetLiveCount = 1 /\ mLiveList = <<2>>
  /\ cleaned = {1} /\ weak[1][1] = 1 /\ weak[2][2] = 1

\* C35: with one thread, the flag is false whenever no call is in progress;
\* CleanUp returns with the live list empty and the list stays empty until a
\* Create; a CleanUp called with the list empty can be called and changes
\* nothing, so it makes no Destroy; and the sole handle of an object created
\* after a CleanUp, when dropped, has its entry found and removed by Collect
\* and the object destroyed once, with no assertion failing.
C35_CleanUpIdempotent ==
  /\ [](failed = "none")
  /\ [](pc[1] = "idle" => ~mCleaningUp)
  /\ []((pc[1] = "idle" /\ mLiveList = <<>>)
          => /\ ENABLED (CleanUp(1) /\ UNCHANGED hvars)
             /\ ~ENABLED (CleanUp(1) /\ UNCHANGED hvars /\ vars' # vars))
  /\ [][/\ (mCleaningUp /\ ~mCleaningUp')
            => mLiveList' = <<>> /\ pc'[1] = "idle"
        /\ (mLiveList = <<>> /\ mLiveList' # <<>>) => pc[1] = "create_reg"
        /\ \A r \in Rec :
             (/\ Resetting(1) /\ local[1].r = r /\ weak[1][r] = 1
              /\ cleaned # {} /\ r \notin cleaned)
             => /\ pc'[1] = "idle"
                   => /\ collects'[r] = 1 /\ destroys'[r] = 1
                      /\ heap'[r] = "freed"
                /\ pc[1] = "collect" => InLiveList(r) /\ ~InLiveList(r)']_vars

C35_Witness ==
  /\ pc[1] = "idle" /\ cleaned = {1} /\ mLiveList = <<>>
  /\ destroys[1] = 1 /\ destroys[2] = 1 /\ collects[2] = 1 /\ collects[1] = 0
  /\ heap[2] = "freed" /\ weak[1][1] = 1

\* C36: mCleaningUp is false whenever mLiveListMutex is free, and while it is
\* set the thread that holds mLiveListMutex is inside the Clear() of CleanUp.
\* So when a Collect called by a thread's handle Reset tests the flag, having
\* acquired the lock, the flag is false, and no such Collect returns early.
C36_FlagOnlyUnderLock ==
  /\ [](mLiveListMutex = NULL => ~mCleaningUp)
  /\ [](mCleaningUp =>
          \E t \in Threads :
            /\ mLiveListMutex = t /\ local[t].ctx = "cleanup"
            /\ pc[t] \in {"ptr_destroy", "ptr_delete", "ptr_test", "ptr_act",
                         "blocked"})
  /\ [][\A t \in Threads :
          pc[t] = "collect" /\ pc'[t] # "collect"
          => ~mCleaningUp /\ pc'[t] # "idle"]_vars

C36_Witness ==
  /\ mCleaningUp /\ mLiveListMutex = 1 /\ pc[2] = "collect"
  /\ local[1].ctx = "cleanup" /\ local[2].r = local[1].e

\* thread t locks mLiveListMutex in this step: it takes the free mutex, or it
\* executes the critical section of Create or a Collect that ends in the step,
\* or the destructor of the object it deletes in Destroy calls Collect
LiveListLocked(t) ==
  \/ mLiveListMutex # t /\ mLiveListMutex' = t
  \/ pc[t] = "create_reg" /\ pc'[t] = "idle"
  \/ pc[t] = "collect" /\ pc'[t] # "collect"
  \/ pc[t] = "ptr_delete" /\ collects' # collects /\ pc'[t] # "blocked"

\* thread t locks mAllocatorMutex (mFactoryMutex) in this step: it takes the
\* free mutex, or it executes the first critical section of Create or the
\* cross-check of GCGenericFactory::CleanUp
AllocatorLocked(t) ==
  \/ mAllocatorMutex # t /\ mAllocatorMutex' = t
  \/ pc[t] = "idle" /\ pc'[t] = "create_reg"
  \/ pc[t] = "cleanup_check" /\ pc'[t] = "idle" /\ debug' = "debug"

CreateBlendState_Returns ==
  /\ dev.at \in {"return", "local"}
  /\ dev'.at = "ready"

\* C38: DX11Device::CreateBlendState.  When Initialize of the new object fails,
\* the handle returned is empty, the object has been collected once and
\* destroyed once, and the live count of the factory is what it was before the
\* call; when Initialize succeeds the live count is one higher and the handle
\* returned is attached, with count 1.
C38_CreateBlendState ==
  [][CreateBlendState_Returns =>
       LET r == dev.blendState IN
       /\ dev.initialized = "failed" =>
            /\ dev'.ret = NULL
            /\ weak'[1][r] = 0
            /\ collects'[r] = 1
            /\ destroys'[r] = 1
            /\ Len(mLiveList') = dev.before
       /\ dev.initialized = "ok" =>
            /\ Len(mLiveList') = dev.before + 1
            /\ dev'.ret = r
            /\ weak'[1][r] = 1
            /\ heap'[r] = "live"
            /\ counter'[r].ptr # NULL
            /\ counter'[r].count = 1
            /\ destroys'[r] = 0]_vars

\* a call whose Initialize failed has returned while the caller holds the
\* handle of an earlier call
C38_Witness ==
  /\ dev.at = "ready"
  /\ dev.initialized = "failed"
  /\ dev.before = 1
  /\ Len(mLiveList) = 1
  /\ destroys[dev.blendState] = 1
  /\ \E r \in Rec : weak[1][r] = 1 /\ counter[r].count = 1


\* C39: when a DX11Device is destroyed, the live list of its factory is empty
\* at the moment the destructor of the factory runs, whatever handles the
\* callers still hold, and the assertion of that destructor does not fail.
C39_DeviceDestructor ==
  [][DX11Device_Members(1) =>
       /\ mLiveList = <<>>
       /\ failed' = "none"
       /\ debug' = debug]_vars

\* the factory of a destroyed device is gone while the caller still holds the
\* handles of two objects that Finalize destroyed
C39_Witness ==
  /\ pc[1] = "gone"
  /\ dev.at = "members"
  /\ \E r \in Rec, m \in Rec :
       /\ r # m
       /\ weak[1][r] > 0 /\ weak[1][m] > 0
       /\ r \in cleaned /\ m \in cleaned
       /\ destroys[r] = 1 /\ destroys[m] = 1

====
